---- MODULE Spec2Model ----
(***************************************************************************)
(* Log arrays of tdb-succinct (src/src/logarray.rs): the control word      *)
(* codec, the parsers, the indexed view and its slices, the eager builder  *)
(* and the streaming decoder.                                              *)
(*                                                                         *)
(* A u64 is a function 0..63 -> {0,1}; index 0 is the most significant     *)
(* bit, as the source counts bit offsets from the msb.  Lengths, sizes and *)
(* indexes are u64 (usize on a 64-bit target) in the same representation.  *)
(* A buffer is a sequence of bytes 0..255.                                 *)
(***************************************************************************)
EXTENDS Integers, Sequences, FiniteSets, TLC

\* ------------------------------------------------------------------------
\* State
\* ------------------------------------------------------------------------

VARIABLES
    build,      \* "debug" (overflow checks and debug assertions on) or "release"
    cw_len,     \* control word calls: the length passed to control_word
    cw_width,   \* control word calls: the width passed to control_word
    cw_buf,     \* result of control_word(cw_len, cw_width), or NoCall
    cw_parsed,  \* result of parse_control_word on the encoded bytes, or NoCall
    builder,    \* the LogArrayBufBuilder: buf, width, current, offset, count
    bstate,     \* "none", "open", "finalized" or "panicked"
    pushed,     \* the values the builder accepted, in push order
    input_buf,  \* the bytes handed to a parser / the content of the stored file
    parsed,     \* result of the parser that was called on input_buf, or NoCall
    logarray,   \* the current LogArray view, or NoArray
    parent,     \* the view that `logarray` was sliced from, or NoArray
    sliced,     \* the last slice call: its arguments and whether it panicked
    slices,     \* number of slice calls made so far
    iter,       \* the LogArrayIterator and the elements it has returned
    decoder,    \* the LogArrayDecoder: current, width, offset, remaining
    bytes,      \* the decoder's input queue (BytesMut): bytes read, not yet consumed
    read_pos,   \* number of bytes of the file the reader has delivered
    decoded,    \* the elements the decoder has returned, in order
    probe,      \* the last entry(index) call on a view and its outcome, or NoCall
    mono,       \* the MonotonicLogArray (its LogArray), or NoArray
    mono_made,  \* the last from_logarray call and whether it panicked, or NoCall
    search,     \* the last index_of / nearest_index_of call and its outcome, or NoCall
    fbuilder,   \* the LogArrayFileBuilder: file, width, current, offset, count
    fstate,     \* "none", "open", "finalized" or "panicked"
    fpushed,    \* the values the file builder accepted, in push order
    rejected,   \* whether the file builder has returned an error from a push
    last_push,  \* the last push on an eager builder and its outcome, or NoCall
    late,       \* the LateLogArrayBufBuilder: buf, vals, width
    lstate,     \* "none", "open", "finalized" or "panicked"
    late_calls, \* number of push, push_vec and pop calls on the deferred builder
    last_decode, \* the last decode call: decoder and queue before, and its result, or NoCall
    last_finalize, \* the last finalize of the file builder: the sink calls it made, or NoCall
    store,      \* MemoryBackedStore contents: Nonexistent or Existent(bytes)
    writers,    \* the MemoryBackedStoreWriters: for each, its state and its bytes
    last_sync,  \* the writer whose sync_all was the last to complete, or 0
    observed,   \* the last exists / size / map call of a reader and its result, or NoCall
    mapped,     \* a buffer that an earlier map call returned, or NoCall
    reader      \* the MemoryBackedStoreReader and what was read through it, or NoCall

cwVars    == <<cw_len, cw_width, cw_buf, cw_parsed>>
buildVars == <<builder, bstate, pushed>>
parseVars == <<input_buf, parsed>>
viewVars  == <<logarray, parent, sliced, slices>>
streamVars == <<decoder, bytes, read_pos, decoded>>

monoVars   == <<mono, mono_made, search>>
fileVars   == <<fbuilder, fstate, fpushed, rejected>>
lateVars   == <<late, lstate, late_calls>>
storeVars  == <<store, writers, last_sync, observed, mapped, reader>>
restVars   == <<last_decode, last_finalize, storeVars>>
extVars    == <<probe, monoVars, fileVars, last_push, lateVars, restVars>>

vars == <<build, cwVars, buildVars, parseVars, viewVars, iter, streamVars, extVars>>

\* ------------------------------------------------------------------------
\* 64-bit unsigned integers
\* ------------------------------------------------------------------------

Bits == 0..63

Pow2(n) == 2^n

Zero64 == [i \in Bits |-> 0]

\* The u64 of a natural below 2^31.
FromNat(n) == [i \in Bits |-> IF 63 - i > 30 THEN 0 ELSE (n \div Pow2(63 - i)) % 2]

\* The 16-bit limb j of x, limb 0 the least significant.
Limb(x, j) ==
    LET b == 63 - 16 * j IN
    x[b] + 2 * x[b-1] + 4 * x[b-2] + 8 * x[b-3]
    + 16 * x[b-4] + 32 * x[b-5] + 64 * x[b-6] + 128 * x[b-7]
    + 256 * x[b-8] + 512 * x[b-9] + 1024 * x[b-10] + 2048 * x[b-11]
    + 4096 * x[b-12] + 8192 * x[b-13] + 16384 * x[b-14] + 32768 * x[b-15]

\* The four limbs of x, limb 0 first.
Limbs(x) == <<Limb(x, 0), Limb(x, 1), Limb(x, 2), Limb(x, 3)>>

\* The u64 of four limbs, limb 0 first; only the low 16 bits of a limb count.
FromLimbs(l) ==
    [i \in Bits |-> ((l[((63 - i) \div 16) + 1] % 65536) \div Pow2((63 - i) % 16)) % 2]

\* TRUE iff x is below 2^31, so that ToNat(x) fits a 32-bit signed integer.
IsSmall(x) == \A i \in 0..32 : x[i] = 0

ToNat(x) == Limb(x, 0) + 65536 * Limb(x, 1)

\* The u64 of the limb-wise results t of an operation, with the carries (or
\* borrows) taken into the next limb, and whether the result left 64 bits.
Carried(t) ==
    LET s0 == t[1]
        s1 == t[2] + s0 \div 65536
        s2 == t[3] + s1 \div 65536
        s3 == t[4] + s2 \div 65536
    IN [val |-> FromLimbs(<<s0, s1, s2, s3>>), overflow |-> s3 \div 65536 # 0]

AddLimbs(a, b) == Carried(<<a[1] + b[1], a[2] + b[2], a[3] + b[3], a[4] + b[4]>>)

\* x + y in u64: the wrapped sum and whether it overflowed.
Add64(x, y) == AddLimbs(Limbs(x), Limbs(y))

SubLimbs(a, b) == Carried(<<a[1] - b[1], a[2] - b[2], a[3] - b[3], a[4] - b[4]>>)

\* x - y in u64 for y <= x.
Sub64(x, y) == SubLimbs(Limbs(x), Limbs(y)).val

MulLimbs(a, m) == Carried(<<a[1] * m, a[2] * m, a[3] * m, a[4] * m>>)

\* x * m in u64 for a factor m below 2^15.
Mul64(x, m) == MulLimbs(Limbs(x), m)

Lt64(x, y) == \E i \in Bits : /\ x[i] < y[i]
                              /\ \A j \in 0..(i-1) : x[j] = y[j]

Le64(x, y) == x = y \/ Lt64(x, y)

\* x << k and x >> k for a shift amount k in 0..63 (logical shifts).
Shl(x, k) == [i \in Bits |-> IF i + k <= 63 THEN x[i + k] ELSE 0]

Shr(x, k) == [i \in Bits |-> IF i - k >= 0 THEN x[i - k] ELSE 0]

BitOr(x, y) == [i \in Bits |-> IF x[i] = 1 \/ y[i] = 1 THEN 1 ELSE 0]

BitAnd(x, y) == [i \in Bits |-> IF x[i] = 1 /\ y[i] = 1 THEN 1 ELSE 0]

\* The u64 whose low n bits are one.
LowMask(n) == [i \in Bits |-> IF i >= 64 - n THEN 1 ELSE 0]

leading_zeros(x) ==
    IF x = Zero64 THEN 64
    ELSE CHOOSE n \in Bits : x[n] = 1 /\ \A j \in 0..(n-1) : x[j] = 0

\* ------------------------------------------------------------------------
\* Big-endian byte order
\* ------------------------------------------------------------------------

ByteBit(b, k) == (b \div Pow2(7 - k)) % 2

\* BigEndian::read_u64 of the first 8 bytes of buf.
read_u64(buf) == [i \in Bits |-> ByteBit(buf[(i \div 8) + 1], i % 8)]

\* BigEndian::read_u32 of the first 4 bytes of buf, widened to u64.
read_u32(buf) ==
    [i \in Bits |-> IF i < 32 THEN 0 ELSE ByteBit(buf[((i - 32) \div 8) + 1], i % 8)]

ByteOf(x, k) ==
    LET b == 8 * k IN
    128 * x[b] + 64 * x[b+1] + 32 * x[b+2] + 16 * x[b+3]
    + 8 * x[b+4] + 4 * x[b+5] + 2 * x[b+6] + x[b+7]

\* The 8 bytes that put_u64 / write_u64 append for x.
put_u64(x) == [k \in 1..8 |-> ByteOf(x, k - 1)]

\* The 4 bytes BigEndian::write_u32 writes for `x as u32`.
write_u32(x) == [k \in 1..4 |-> ByteOf(x, k + 3)]

\* buf[from..] and buf[from..to] with 0-based byte indexes, as Rust slices.
From(buf, from) == SubSeq(buf, from + 1, Len(buf))

Range(buf, from, to) == SubSeq(buf, from + 1, to)

\* ------------------------------------------------------------------------
\* Control word
\* ------------------------------------------------------------------------

MAX_LOGARRAY_LEN == LowMask(56)

Mask24 == LowMask(24)

Mask32 == LowMask(32)

parse_control_word_unmasked(buf) ==
    LET len_1 == read_u32(buf)
        width == buf[5]
        len_2 == read_u32(From(buf, 4))
        len   == Add64(Shl(len_2, 32), len_1).val
    IN [len |-> len, width |-> width]

parse_control_word(buf) ==
    LET len_1 == read_u32(buf)
        width == buf[5]
        len_2 == BitAnd(read_u32(From(buf, 4)), Mask24)
        len   == Add64(Shl(len_2, 32), len_1).val
    IN [len |-> len, width |-> width]

control_word_truncating(len, width) ==
    LET len_1 == BitAnd(len, Mask32)
        len_2 == BitAnd(Shr(len, 32), Mask24)
        buf   == write_u32(len_1) \o write_u32(len_2)
    IN [panic |-> FALSE, buf |-> [buf EXCEPT ![5] = width]]

control_word_low_half_only(len, width) ==
    IF Lt64(MAX_LOGARRAY_LEN, len)
    THEN [panic |-> TRUE, buf |-> <<>>]
    ELSE [panic |-> FALSE, buf |-> write_u32(BitAnd(len, Mask32)) \o <<width, 0, 0, 0>>]

control_word(len, width) ==
    IF Lt64(MAX_LOGARRAY_LEN, len)
    THEN [panic |-> TRUE, buf |-> <<>>]
    ELSE LET len_1 == BitAnd(len, Mask32)
             len_2 == BitAnd(Shr(len, 32), Mask24)
             buf   == write_u32(len_1) \o write_u32(len_2)
         IN [panic |-> FALSE, buf |-> [buf EXCEPT ![5] = width]]

\* ------------------------------------------------------------------------
\* Build profile: a debug build checks arithmetic and shift overflow and
\* debug assertions and panics; a release build wraps and masks.
\* ------------------------------------------------------------------------

\* A value returned, or a panic that unwinds out of the call.
Returns(x) == [panic |-> FALSE, val |-> x]

Panics == [panic |-> TRUE, val |-> Zero64]

\* `x << k` / `x >> k` with a shift amount that may reach the bit width:
\* the shift overflows when k >= 64; a release build masks k to its low 6 bits.
ShiftOverflows(k) == k >= 64

Masked(k) == k % 64

\* ------------------------------------------------------------------------
\* Errors and validation
\* ------------------------------------------------------------------------

InputBufferTooSmall(size) == [kind |-> "InputBufferTooSmall", size |-> size]

WidthTooLarge(width) == [kind |-> "WidthTooLarge", width |-> width]

UnexpectedInputBufferSize(actual, expected, len, width) ==
    [kind |-> "UnexpectedInputBufferSize", actual |-> actual,
     expected |-> expected, len |-> len, width |-> width]

Okay == [kind |-> "Ok"]

validate_input_buf_size(input_buf_size) ==
    IF input_buf_size < 8 THEN InputBufferTooSmall(input_buf_size) ELSE Okay

\* len * width + 127 >> 6 << 3
expected_buf_size(len, width) ==
    Shl(Shr(Add64(Mul64(len, width).val, FromNat(127)).val, 6), 3)

\* if input_buf_size != expected_buf_size { return Err(..) }
unexpected_unless_equal(actual, expected, len, width) ==
    IF actual # expected
    THEN UnexpectedInputBufferSize(actual, expected, len, width)
    ELSE Okay

\* if input_buf_size < expected_buf_size { return Err(..) }
unexpected_if_smaller(actual, expected, len, width) ==
    IF Lt64(actual, expected)
    THEN UnexpectedInputBufferSize(actual, expected, len, width)
    ELSE Okay

validate_len_and_width_size_first(input_buf_size, len, width) ==
    IF FromNat(input_buf_size) # expected_buf_size(len, width)
    THEN UnexpectedInputBufferSize(FromNat(input_buf_size),
                                   expected_buf_size(len, width), len, width)
    ELSE IF width > 64 THEN WidthTooLarge(width)
    ELSE Okay

validate_len_and_width(input_buf_size, len, width) ==
    IF width > 64 THEN WidthTooLarge(width)
    ELSE unexpected_unless_equal(FromNat(input_buf_size),
                                 expected_buf_size(len, width), len, width)

validate_len_and_width_trailing(input_buf_size, len, width) ==
    IF width > 64 THEN WidthTooLarge(width)
    ELSE unexpected_if_smaller(FromNat(input_buf_size),
                               expected_buf_size(len, width), len, width)

\* Result of a parser: the error, or the (length, width) read.
Failed(err) == [ok |-> FALSE, err |-> err]

\* `validation?; Ok(result)`: the error v if there is one, else the result.
Checked(v, result) == IF v # Okay THEN Failed(v) ELSE result

\* The validation step of read_control_word on the decoded control word cw.
read_control_word_checked(cw, input_buf_size) ==
    Checked(validate_len_and_width(input_buf_size, cw.len, cw.width),
            [ok |-> TRUE, len |-> cw.len, width |-> cw.width])

read_control_word(buf, input_buf_size) ==
    read_control_word_checked(parse_control_word(buf), input_buf_size)

\* The validation step of read_control_word_trailing on the decoded control word cw.
read_control_word_trailing_checked(cw, input_buf_size) ==
    Checked(validate_len_and_width_trailing(input_buf_size, cw.len, cw.width),
            [ok |-> TRUE, len |-> cw.len, width |-> cw.width])

read_control_word_trailing(buf, input_buf_size) ==
    read_control_word_trailing_checked(parse_control_word(buf), input_buf_size)

\* Number of data bytes of `len` elements of `width` bits; the caller has
\* validated the buffer size, so the result is the size of a real buffer.
logarray_length_from_len_width(len, width) ==
    LET num_bits  == Mul64(len, width).val
        num_u64   == Add64(Shr(num_bits, 6),
                           IF BitAnd(num_bits, LowMask(6)) = Zero64
                           THEN Zero64 ELSE FromNat(1)).val
        num_bytes == Shl(num_u64, 3)
    IN ToNat(num_bytes)

\* ------------------------------------------------------------------------
\* LogArray: the view
\* ------------------------------------------------------------------------

LogArray(first, len, width, buf) ==
    [first |-> first, len |-> len, width |-> width, input_buf |-> buf]

\* The view LogArray::parse returns for the control word result r.
parse_view(r, buf) ==
    IF ~r.ok THEN r
    ELSE [ok |-> TRUE, array |-> LogArray(Zero64, r.len, r.width, buf), rest |-> <<>>]

\* LogArray::parse
parse(buf) ==
    LET input_buf_size == Len(buf)
        v == validate_input_buf_size(input_buf_size)
    IN IF v # Okay THEN Failed(v)
       ELSE parse_view(read_control_word(From(buf, input_buf_size - 8), input_buf_size),
                       buf)

\* The view and the remainder LogArray::parse_header_first returns for the
\* control word result r.
parse_header_first_view(r, buf) ==
    IF ~r.ok THEN r
    ELSE LET num_bytes == logarray_length_from_len_width(r.len, r.width)
             advanced  == From(buf, 8)
         IN [ok |-> TRUE,
             array |-> LogArray(Zero64, r.len, r.width, Range(advanced, 0, num_bytes)),
             rest |-> From(advanced, num_bytes)]

parse_header_first_whole_rest(buf) ==
    LET input_buf_size == Len(buf)
        v == validate_input_buf_size(input_buf_size)
    IN IF v # Okay THEN Failed(v)
       ELSE LET r == read_control_word_trailing(Range(buf, 0, 8), input_buf_size)
            IN IF ~r.ok THEN r
               ELSE [ok |-> TRUE,
                     array |-> LogArray(Zero64, r.len, r.width, From(buf, 8)),
                     rest |-> <<>>]

\* LogArray::parse_header_first
parse_header_first(buf) ==
    LET input_buf_size == Len(buf)
        v == validate_input_buf_size(input_buf_size)
    IN IF v # Okay THEN Failed(v)
       ELSE parse_header_first_view(
                read_control_word_trailing(Range(buf, 0, 8), input_buf_size), buf)

\* logarray_file_get_length_and_width on a file of content buf
logarray_file_get_length_and_width(buf) ==
    LET input_buf_size == Len(buf)
        v == validate_input_buf_size(input_buf_size)
    IN IF v # Okay THEN Failed(v)
       ELSE read_control_word(From(buf, input_buf_size - 8), input_buf_size)

\* The two-word decoding shared by entry and the streaming decoder:
\* first_word << offset >> offset << second_width | second_word >> 64 - second_width
straddle(first_word, second_word, offset, width) ==
    LET first_width  == 64 - offset
        second_width == width - first_width
        first_part   == Shl(Shr(Shl(first_word, offset), offset), second_width)
        second_part  == Shr(second_word, 64 - second_width)
    IN BitOr(first_part, second_part)

\* self.width as usize * (self.first + index): the product of the sum, and
\* whether the sum or the product overflowed.
times_width(sum, width) ==
    [val |-> Mul64(sum.val, width).val,
     overflow |-> sum.overflow \/ Mul64(sum.val, width).overflow]

\* The read of LogArray::entry at byte_index, bit `offset` of the word.
entry_read(a, byte_index, offset) ==
    LET buf == a.input_buf
        lz  == 64 - a.width
    IN \* &buf[byte_index..] and read_u64 need 8 bytes at byte_index
       IF ~IsSmall(byte_index) \/ ToNat(byte_index) + 8 > Len(buf) THEN Panics
       ELSE IF offset + a.width <= 64
       THEN \* first_word << offset >> leading_zeros
            IF ShiftOverflows(lz)
            THEN IF build = "debug" THEN Panics
                 ELSE Returns(Shr(Shl(read_u64(From(buf, ToNat(byte_index))), offset), Masked(lz)))
            ELSE Returns(Shr(Shl(read_u64(From(buf, ToNat(byte_index))), offset), lz))
       ELSE IF ToNat(byte_index) + 16 > Len(buf) THEN Panics
       ELSE Returns(straddle(read_u64(From(buf, ToNat(byte_index))),
                             read_u64(From(buf, ToNat(byte_index) + 8)),
                             offset, a.width))

\* LogArray::entry once bit_index has been computed.
entry_at_bit(a, index, bit_index) ==
    \* debug_assert!(index < self.len())
    IF build = "debug" /\ ~Lt64(index, a.len) THEN Panics
    \* usize arithmetic of bit_index
    ELSE IF build = "debug" /\ bit_index.overflow THEN Panics
    ELSE entry_read(a, Shl(Shr(bit_index.val, 6), 3),
                    ToNat(BitAnd(bit_index.val, LowMask(6))))

\* LogArray::entry on a view of width 0..64.
entry(a, index) ==
    entry_at_bit(a, index, times_width(Add64(a.first, index), a.width))

\* A second read whenever the element reaches the end of the first word.
entry_words_to_boundary(a, bit_index) ==
    [first_word |-> Shl(Shr(bit_index.val, 6), 3),
     second_word |-> ToNat(BitAnd(bit_index.val, LowMask(6))) + a.width >= 64]

\* The words LogArray::entry reads: the one at byte_index = bit_index >> 6 << 3
\* and, unless offset + width <= 64, the one at byte_index + 8.
entry_words(a, bit_index) ==
    [first_word |-> Shl(Shr(bit_index.val, 6), 3),
     second_word |-> ~(ToNat(BitAnd(bit_index.val, LowMask(6))) + a.width <= 64)]

\* Result of LogArray::slice: the new view, or a panic.
slice_from_zero(a, offset, len) ==
    LET slice_end == Add64(offset, len)
    IN IF slice_end.overflow THEN [panic |-> TRUE, array |-> a]
       ELSE IF ~Le64(slice_end.val, a.len) THEN [panic |-> TRUE, array |-> a]
       ELSE [panic |-> FALSE,
             array |-> LogArray(offset, len, a.width, a.input_buf)]

slice_wrapping(a, offset, len) ==
    LET slice_end == Add64(offset, len)
    IN IF ~Le64(slice_end.val, a.len) THEN [panic |-> TRUE, array |-> a]
       ELSE [panic |-> FALSE,
             array |-> LogArray(Add64(a.first, offset).val, len, a.width, a.input_buf)]

slice(a, offset, len) ==
    LET slice_end == Add64(offset, len)
    IN \* offset.checked_add(len).unwrap_or_else(panic)
       IF slice_end.overflow THEN [panic |-> TRUE, array |-> a]
       \* assert!(slice_end <= self.len)
       ELSE IF ~Le64(slice_end.val, a.len) THEN [panic |-> TRUE, array |-> a]
       ELSE [panic |-> FALSE,
             array |-> LogArray(Add64(a.first, offset).val, len, a.width, a.input_buf)]

\* ------------------------------------------------------------------------
\* LogArrayBufBuilder: the eager builder over an in-memory buffer
\* ------------------------------------------------------------------------

\* LogArrayBufBuilder::new
NewBufBuilder(width) ==
    [buf |-> <<>>, width |-> width, current |-> Zero64, offset |-> 0,
     count |-> Zero64, panic |-> FALSE]

push_flush_no_second_part(b, val, cur, off) ==
    IF off >= 64
    THEN [b EXCEPT !.buf = b.buf \o put_u64(cur),
                   !.offset = off - 64,
                   !.current = Zero64]
    ELSE [b EXCEPT !.current = cur, !.offset = off]

\* The fields after the offset update and the word-full branch of push.
\* A flush that starts the next word at offset 0 whatever was left over.
push_flush_from_zero(b, val, cur, off) ==
    IF off >= 64
    THEN [b EXCEPT !.buf = b.buf \o put_u64(cur), !.offset = 0, !.current = Zero64]
    ELSE [b EXCEPT !.current = cur, !.offset = off]

push_flush(b, val, cur, off) ==
    IF off >= 64
    THEN [b EXCEPT !.buf = b.buf \o put_u64(cur),
                   !.offset = off - 64,
                   !.current = IF off - 64 = 0 THEN Zero64
                               ELSE Shl(val, 64 - (off - 64))]
    ELSE [b EXCEPT !.current = cur, !.offset = off]

\* LogArrayBufBuilder::push
push(b, val) ==
    LET lz  == 64 - b.width
        cnt == Add64(b.count, FromNat(1))
        b1  == [b EXCEPT !.count = cnt.val]
    IN \* the value does not fit in `width` bits
       IF leading_zeros(val) < lz THEN [b EXCEPT !.panic = TRUE]
       \* self.count += 1
       ELSE IF cnt.overflow /\ build = "debug" THEN [b EXCEPT !.panic = TRUE]
       \* val << leading_zeros >> self.offset
       ELSE IF ShiftOverflows(lz) /\ build = "debug" THEN [b1 EXCEPT !.panic = TRUE]
       ELSE push_flush(b1, val,
                       BitOr(b.current, Shr(Shl(val, Masked(lz)), b.offset)),
                       b.offset + b.width)

finalize_data_always(b) == [b EXCEPT !.buf = b.buf \o put_u64(b.current)]

\* LogArrayBufBuilder::finalize_data
finalize_data(b) ==
    LET bits == Mul64(b.count, b.width)
    IN IF bits.overflow /\ build = "debug" THEN [b EXCEPT !.panic = TRUE]
       ELSE IF BitAnd(bits.val, LowMask(6)) # Zero64
       THEN [b EXCEPT !.buf = b.buf \o put_u64(b.current)]
       ELSE b

\* LogArrayBufBuilder::write_control_word
write_control_word(b) ==
    LET cw == control_word(b.count, b.width)
    IN IF cw.panic THEN [b EXCEPT !.panic = TRUE]
       ELSE [b EXCEPT !.buf = b.buf \o cw.buf]

\* LogArrayBufBuilder::finalize
finalize(b) ==
    LET d == finalize_data(b)
    IN IF d.panic THEN d ELSE write_control_word(d)

\* ------------------------------------------------------------------------
\* LogArrayFileBuilder: the eager builder that writes to a file
\* ------------------------------------------------------------------------

\* LogArrayFileBuilder::new
NewFileBuilder(width) ==
    [file |-> <<>>, width |-> width, current |-> Zero64, offset |-> 0,
     count |-> Zero64, panic |-> FALSE]

\* util::write_u64(file, word): the word, big-endian, appended to the file.
write_u64(file, word) == file \o put_u64(word)

\* The fields after the offset update and the word-full branch of push.
\* A flush to the file that drops the lower bits of a straddling value.
file_push_flush_no_second_part(b, val, cur, off) ==
    IF off >= 64
    THEN [b EXCEPT !.file = write_u64(b.file, cur), !.offset = off - 64, !.current = Zero64]
    ELSE [b EXCEPT !.current = cur, !.offset = off]

file_push_flush(b, val, cur, off) ==
    IF off >= 64
    THEN [b EXCEPT !.file = write_u64(b.file, cur),
                   !.offset = off - 64,
                   !.current = IF off - 64 = 0 THEN Zero64
                               ELSE Shl(val, 64 - (off - 64))]
    ELSE [b EXCEPT !.current = cur, !.offset = off]

\* LogArrayFileBuilder::push once the value is known to fit.
file_push_fitting(b, val, lz, cnt) ==
    \* self.count += 1
    IF cnt.overflow /\ build = "debug" THEN [b EXCEPT !.panic = TRUE]
    \* val << leading_zeros >> self.offset
    ELSE IF ShiftOverflows(lz) /\ build = "debug"
    THEN [b EXCEPT !.count = cnt.val, !.panic = TRUE]
    ELSE file_push_flush([b EXCEPT !.count = cnt.val], val,
                         BitOr(b.current, Shr(Shl(val, Masked(lz)), b.offset)),
                         b.offset + b.width)

\* Outcome of a push: the io::Result and the builder afterwards.
Pushed(err, b) == [err |-> err, builder |-> b]

file_push_unchecked(b, val) ==
    Pushed("none", file_push_fitting(b, val, 64 - b.width, Add64(b.count, FromNat(1))))

\* LogArrayFileBuilder::push
file_push(b, val) ==
    IF leading_zeros(val) < 64 - b.width
    THEN Pushed("InvalidData", b)
    ELSE Pushed("none", file_push_fitting(b, val, 64 - b.width, Add64(b.count, FromNat(1))))

\* LogArrayFileBuilder::finalize_data for the bit count self.count * width
file_finalize_data_of(b, bits) ==
    IF bits.overflow /\ build = "debug" THEN [b EXCEPT !.panic = TRUE]
    ELSE IF BitAnd(bits.val, LowMask(6)) # Zero64
    THEN [b EXCEPT !.file = write_u64(b.file, b.current)]
    ELSE b

\* LogArrayFileBuilder::finalize_data
file_finalize_data(b) == file_finalize_data_of(b, Mul64(b.count, b.width))

\* The control word of LogArrayFileBuilder::finalize written after the data.
file_write_control_word(d, cw) ==
    IF d.panic THEN d
    ELSE IF cw.panic THEN [d EXCEPT !.panic = TRUE]
    ELSE [d EXCEPT !.file = d.file \o cw.buf]

\* LogArrayFileBuilder::finalize
file_finalize(b) ==
    file_write_control_word(file_finalize_data(b), control_word(b.count, b.width))

\* ------------------------------------------------------------------------
\* LogArrayFileBuilder on a sink whose calls can fail
\* ------------------------------------------------------------------------

\* LogArrayFileBuilder::push when util::write_u64 returns an error: the `?`
\* returns after count, current and offset were updated.
file_push_write_failed(b, val, lz, cnt) ==
    IF cnt.overflow /\ build = "debug" THEN [b EXCEPT !.panic = TRUE]
    ELSE IF ShiftOverflows(lz) /\ build = "debug"
    THEN [b EXCEPT !.count = cnt.val, !.panic = TRUE]
    ELSE [b EXCEPT !.count = cnt.val,
                   !.current = BitOr(b.current, Shr(Shl(val, Masked(lz)), b.offset)),
                   !.offset = b.offset + b.width]

\* LogArrayFileBuilder::push on a sink whose next write succeeds (sink_ok)
\* or fails.
file_push_to(b, val, sink_ok) ==
    IF leading_zeros(val) < 64 - b.width
    THEN Pushed("InvalidData", b)
    ELSE IF sink_ok \/ b.offset + b.width < 64
    THEN Pushed("none", file_push_fitting(b, val, 64 - b.width, Add64(b.count, FromNat(1))))
    ELSE Pushed("WriteFailed",
                file_push_write_failed(b, val, 64 - b.width, Add64(b.count, FromNat(1))))

\* A call on the sink and whether it succeeded.
SinkCall(op, ok) == [op |-> op, ok |-> ok]

\* The state of a finalize: the builder, the error returned so far and the
\* sink calls made so far.
Finalizing(b) == [builder |-> b, err |-> "none", ops |-> <<>>]

\* The outcome of a sink call in a finalize: a failure ends the finalize.
sink_called(r, op, ok, file) ==
    IF ok THEN [r EXCEPT !.builder.file = file, !.ops = Append(r.ops, SinkCall(op, TRUE))]
    ELSE [r EXCEPT !.err = "SinkFailed", !.ops = Append(r.ops, SinkCall(op, FALSE))]

\* self.finalize_data().await?  (step 1 is the write that fails, if fail = 1)
finalize_step_data(r, bits, fail) ==
    IF bits.overflow /\ build = "debug" THEN [r EXCEPT !.builder.panic = TRUE]
    ELSE IF BitAnd(bits.val, LowMask(6)) # Zero64
    THEN sink_called(r, "write_u64", fail # 1, write_u64(r.builder.file, r.builder.current))
    ELSE r

\* let buf = control_word(len, width); self.file.write_all(&buf).await?
finalize_step_control_word(r, cw, fail) ==
    IF r.builder.panic \/ r.err # "none" THEN r
    ELSE IF cw.panic THEN [r EXCEPT !.builder.panic = TRUE]
    ELSE sink_called(r, "write_all", fail # 2, r.builder.file \o cw.buf)

\* A flush that is made whatever the earlier steps returned.
finalize_step_flush_unconditional(r, fail) ==
    sink_called(r, "flush", fail # 3, r.builder.file)

\* self.file.flush().await?
finalize_step_flush(r, fail) ==
    IF r.builder.panic \/ r.err # "none" THEN r
    ELSE sink_called(r, "flush", fail # 3, r.builder.file)

\* self.file.sync_all().await?
finalize_step_sync_all(r, fail) ==
    IF r.builder.panic \/ r.err # "none" THEN r
    ELSE sink_called(r, "sync_all", fail # 4, r.builder.file)

\* LogArrayFileBuilder::finalize on a sink whose fail-th call fails
\* (1: data word, 2: control word, 3: flush, 4: sync_all; 0: none).
file_finalize_to(b, fail) ==
    finalize_step_sync_all(
        finalize_step_flush(
            finalize_step_control_word(
                finalize_step_data(Finalizing(b), Mul64(b.count, b.width), fail),
                control_word(b.count, b.width), fail),
            fail),
        fail)

\* ------------------------------------------------------------------------
\* LateLogArrayBufBuilder: the builder that picks the width at finalize
\* ------------------------------------------------------------------------

\* util::calculate_width(val): the number of bits of val, 0 for 0.
calculate_width(val) == 64 - leading_zeros(val)

\* LateLogArrayBufBuilder::new
NewLateBuilder(buf) == [buf |-> buf, vals |-> <<>>, width |-> 0]

\* LateLogArrayBufBuilder::count
late_count(l) == FromNat(Len(l.vals))

\* The fields after LateLogArrayBufBuilder::push, width being that of val.
late_push_width(l, val, width) ==
    [l EXCEPT !.vals = Append(l.vals, val),
              !.width = IF l.width < width THEN width ELSE l.width]

\* LateLogArrayBufBuilder::push
late_push(l, val) == late_push_width(l, val, calculate_width(val))

\* LateLogArrayBufBuilder::push_vec
RECURSIVE late_push_vec(_, _)
late_push_vec(l, vals) ==
    IF vals = <<>> THEN l ELSE late_push_vec(late_push(l, Head(vals)), Tail(vals))

\* LateLogArrayBufBuilder::last
late_last(l) ==
    IF l.vals = <<>> THEN [some |-> FALSE] ELSE [some |-> TRUE, val |-> l.vals[Len(l.vals)]]

\* LateLogArrayBufBuilder::pop
late_pop(l) ==
    IF l.vals = <<>> THEN l ELSE [l EXCEPT !.vals = SubSeq(l.vals, 1, Len(l.vals) - 1)]

\* LogArrayBufBuilder::push_vec: a panicking push unwinds out of the loop.
RECURSIVE push_vec(_, _)
push_vec(b, vals) ==
    IF vals = <<>> \/ b.panic THEN b ELSE push_vec(push(b, Head(vals)), Tail(vals))

\* LogArrayBufBuilder::finalize_without_control_word
finalize_without_control_word(b) == finalize_data(b)

\* The rest of a finalize once every value is pushed.
finalize_pushed(b) == IF b.panic THEN b ELSE finalize(b)

\* LateLogArrayBufBuilder::finalize: the eager builder it returns the buffer of
late_finalize(l) ==
    finalize_pushed(push_vec([NewBufBuilder(l.width) EXCEPT !.buf = l.buf], l.vals))

\* The rest of a header-first finalize once every value is pushed.
finalize_pushed_without_control_word(b) ==
    IF b.panic THEN b ELSE finalize_without_control_word(b)

\* LateLogArrayBufBuilder::finalize_header_first with its control word cw
late_finalize_header_first_with(l, cw) ==
    IF cw.panic THEN [NewBufBuilder(l.width) EXCEPT !.buf = l.buf, !.panic = TRUE]
    ELSE finalize_pushed_without_control_word(
             push_vec([NewBufBuilder(l.width) EXCEPT !.buf = l.buf \o cw.buf], l.vals))

\* LateLogArrayBufBuilder::finalize_header_first
late_finalize_header_first(l) ==
    late_finalize_header_first_with(l, control_word(late_count(l), l.width))

\* ------------------------------------------------------------------------
\* LogArrayDecoder: the streaming decoder
\* ------------------------------------------------------------------------

\* LogArrayDecoder::new_unchecked
new_unchecked(width, remaining) ==
    [current |-> Zero64, width |-> width, offset |-> 64, remaining |-> remaining]

Decoded_clearing_on_none(d, queue, some, item, panic) ==
    [decoder |-> d, bytes |-> IF some THEN queue ELSE <<>>,
     some |-> some, item |-> item, panic |-> panic]

Decoded_skipping_on_none(d, queue, some, item, panic) ==
    [decoder |-> d, bytes |-> IF some \/ queue = <<>> THEN queue ELSE Tail(queue),
     some |-> some, item |-> item, panic |-> panic]

\* Result of one decode call: the decoder and the queue afterwards, and the
\* element returned (some = FALSE for Ok(None)).
Decoded(d, queue, some, item, panic) ==
    [decoder |-> d, bytes |-> queue, some |-> some, item |-> item, panic |-> panic]

\* LogArrayDecoder::decode
decode(d, queue) ==
    LET first_word == d.current
        offset == d.offset
        width  == d.width
        lz     == 64 - width
        less   == Sub64(d.remaining, FromNat(1))
    IN \* nothing remains: clear the queue
       IF d.remaining = Zero64 THEN Decoded(d, <<>>, FALSE, Zero64, FALSE)
       \* the element lies in the current word
       ELSE IF offset + width <= 64
       THEN LET d1 == [d EXCEPT !.offset = offset + width, !.remaining = less]
            IN \* first_word << offset >> leading_zeros
               IF ShiftOverflows(offset) \/ ShiftOverflows(lz)
               THEN IF build = "debug" THEN Decoded(d1, queue, FALSE, Zero64, TRUE)
                    ELSE Decoded(d1, queue, TRUE,
                                 Shr(Shl(first_word, Masked(offset)), Masked(lz)), FALSE)
               ELSE Decoded(d1, queue, TRUE, Shr(Shl(first_word, offset), lz), FALSE)
       \* a new word is needed and not there yet
       ELSE IF Len(queue) < 8 THEN Decoded(d, queue, FALSE, Zero64, FALSE)
       ELSE LET second_word == read_u64(Range(queue, 0, 8))
                d1 == [d EXCEPT !.current = second_word, !.remaining = less]
            IN IF offset = 64
               THEN Decoded([d1 EXCEPT !.offset = width], From(queue, 8),
                            TRUE, Shr(second_word, lz), FALSE)
               ELSE Decoded([d1 EXCEPT !.offset = width - (64 - offset)],
                            From(queue, 8), TRUE,
                            straddle(first_word, second_word, offset, width), FALSE)

\* ------------------------------------------------------------------------
\* MemoryBackedStore (src/src/storage/memory.rs)
\* ------------------------------------------------------------------------

MaxWriters == 2

Writers == 1..MaxWriters

\* MemoryBackedStoreContents
Nonexistent == [exists |-> FALSE]

Existent(contents) == [exists |-> TRUE, bytes |-> contents]

\* No MemoryBackedStoreWriter was opened yet under this name.
NoWriter == [state |-> "none", bytes |-> <<>>, writes |-> 0]

\* MemoryBackedStore::open_write: a writer with an empty BytesMut of its own.
open_write == [state |-> "open", bytes |-> <<>>, writes |-> 0]

\* MemoryBackedStoreWriter::write (poll_write): extends the writer's bytes.
write(wr, buf) == [wr EXCEPT !.bytes = wr.bytes \o buf]

\* A sync_all that adds the writer's bytes to what the store holds.
sync_all_appending(contents, wr) ==
    IF contents.exists THEN Existent(contents.bytes \o wr.bytes) ELSE Existent(wr.bytes)

\* MemoryBackedStoreWriter::sync_all: under the write lock, the contents
\* become Existent(self.bytes.freeze()).
sync_all(contents, wr) == Existent(wr.bytes)

\* MemoryBackedStore::exists
exists(contents) == Returns(contents.exists)

\* MemoryBackedStore::size
store_size(contents) == IF ~contents.exists THEN Panics ELSE Returns(Len(contents.bytes))

\* MemoryBackedStore::map
map(contents) ==
    IF ~contents.exists THEN Failed("NotFound") ELSE [ok |-> TRUE, val |-> contents.bytes]

\* MemoryBackedStore::open_read_from
open_read_from(contents, offset) ==
    IF ~contents.exists THEN Panics
    ELSE Returns([bytes |-> contents.bytes, pos |-> offset])

\* MemoryBackedStoreReader::read into a buffer of n bytes: the reader after
\* the call and the bytes it put in the buffer, or a panic (pos past the
\* end: bytes.len() - pos underflows, and the wrapped length is out of range).
read(rd, n) ==
    IF Len(rd.bytes) = rd.pos THEN Returns([reader |-> rd, got |-> <<>>])
    ELSE IF Len(rd.bytes) < rd.pos + n
    THEN IF rd.pos > Len(rd.bytes) THEN Panics
         ELSE Returns([reader |-> [rd EXCEPT !.pos = Len(rd.bytes)],
                       got |-> From(rd.bytes, rd.pos)])
    ELSE Returns([reader |-> [rd EXCEPT !.pos = rd.pos + n],
                  got |-> Range(rd.bytes, rd.pos, rd.pos + n)])

\* ------------------------------------------------------------------------
\* Scenarios
\* ------------------------------------------------------------------------

Builds == {"debug", "release"}

NoCall == [called |-> FALSE]

NoArray == [none |-> TRUE]

NoIter == [active |-> FALSE]

NoDecoder == [none |-> TRUE]

\* The values of the components a scenario does not use.
IdleStore ==
    /\ store = Nonexistent
    /\ writers = [w \in Writers |-> NoWriter]
    /\ last_sync = 0
    /\ observed = NoCall
    /\ mapped = NoCall
    /\ reader = NoCall

IdleRest ==
    /\ last_decode = NoCall
    /\ last_finalize = NoCall
    /\ IdleStore

IdleCW ==
    /\ cw_len = Zero64
    /\ cw_width = 0
    /\ cw_buf = NoCall
    /\ cw_parsed = NoCall

IdleBuilder ==
    /\ builder = NewBufBuilder(0)
    /\ bstate = "none"
    /\ pushed = <<>>

IdleView ==
    /\ parsed = NoCall
    /\ logarray = NoArray
    /\ parent = NoArray
    /\ sliced = NoCall
    /\ slices = 0
    /\ iter = NoIter
    /\ decoder = NoDecoder
    /\ bytes = <<>>
    /\ read_pos = 0
    /\ decoded = <<>>

IdleExt ==
    /\ probe = NoCall
    /\ mono = NoArray
    /\ mono_made = NoCall
    /\ search = NoCall
    /\ fbuilder = NewFileBuilder(0)
    /\ fstate = "none"
    /\ fpushed = <<>>
    /\ rejected = FALSE
    /\ last_push = NoCall
    /\ late = NewLateBuilder(<<>>)
    /\ lstate = "none"
    /\ late_calls = 0
    /\ IdleRest

\* ------------------------------------------------------------------------
\* Control word calls
\* ------------------------------------------------------------------------

\* Lengths around 2^32, 2^56 and 2^64.
CwLens ==
    {Zero64, FromNat(1), FromNat(3), FromNat(65536 + 255),
     LowMask(32), Shl(FromNat(1), 32), Add64(Shl(FromNat(1), 32), FromNat(7)).val,
     Shl(FromNat(171), 48), LowMask(56), Shl(FromNat(1), 56),
     Add64(Shl(FromNat(1), 56), FromNat(5)).val, Shl(FromNat(1), 63), LowMask(64)}

CwWidths == {0, 1, 17, 32, 64, 65, 128, 255}

InitCW ==
    /\ build \in Builds
    /\ cw_len \in CwLens
    /\ cw_width \in CwWidths
    /\ cw_buf = NoCall
    /\ cw_parsed = NoCall
    /\ IdleBuilder
    /\ input_buf = <<>>
    /\ IdleView
    /\ IdleExt

\* control_word(len, width)
ControlWord ==
    /\ cw_buf = NoCall
    /\ bstate = "none"
    /\ cw_buf' = [called |-> TRUE, res |-> control_word(cw_len, cw_width)]
    /\ UNCHANGED <<build, cw_len, cw_width, cw_parsed, buildVars, parseVars, viewVars, iter, streamVars, extVars>>

\* parse_control_word(&control_word)
ParseControlWord ==
    /\ cw_buf # NoCall
    /\ ~cw_buf.res.panic
    /\ cw_parsed = NoCall
    /\ cw_parsed' = [called |-> TRUE, res |-> parse_control_word(cw_buf.res.buf)]
    /\ UNCHANGED <<build, cw_len, cw_width, cw_buf, buildVars, parseVars, viewVars, iter, streamVars, extVars>>

NextCW == ControlWord \/ ParseControlWord

SpecCW == InitCW /\ [][NextCW]_vars

\* C5: decoding an encoded control word gives back the length and the width,
\* and byte 4 of the encoding is the width.
C5_ControlWordRoundTrip ==
    /\ (cw_buf # NoCall /\ ~cw_buf.res.panic) => cw_buf.res.buf[5] = cw_width
    /\ cw_parsed # NoCall =>
          /\ cw_parsed.res.len = cw_len
          /\ cw_parsed.res.width = cw_width

\* control_word(2^56-1, 32) has been encoded and decoded.
C5_Witness ==
    /\ cw_parsed # NoCall
    /\ cw_len = LowMask(56)
    /\ cw_width = 32
    /\ cw_buf.res.buf = <<255, 255, 255, 255, 32, 255, 255, 255>>

\* ------------------------------------------------------------------------
\* Build, parse, iterate
\* ------------------------------------------------------------------------

MaxLen == 4

Widths == {0, 1, 17, 32, 33, 63, 64}

\* The low `width` bits 1010..., most significant first.
Alternating(width) ==
    [i \in Bits |-> IF i >= 64 - width /\ (i - (64 - width)) % 2 = 0 THEN 1 ELSE 0]

\* Values that fit in `width` bits, and 2^width, which does not.
FittingValues(width) == {Zero64, LowMask(width), Alternating(width)}

TooWide(width) == IF width < 64 THEN {Shl(FromNat(1), width)} ELSE {}

InitBuild ==
    /\ build \in Builds
    /\ IdleCW
    /\ \E width \in Widths : builder = NewBufBuilder(width)
    /\ bstate = "open"
    /\ pushed = <<>>
    /\ input_buf = <<>>
    /\ IdleView
    /\ IdleExt

\* builder.push(val)
Push ==
    /\ bstate = "open"
    /\ Len(pushed) < MaxLen
    /\ \E val \in FittingValues(builder.width) \cup TooWide(builder.width) :
          \E b \in {push(builder, val)} :
             /\ builder' = b
             /\ bstate' = IF b.panic THEN "panicked" ELSE "open"
             /\ pushed' = IF b.panic THEN pushed ELSE Append(pushed, val)
             /\ last_push' = [called |-> TRUE, kind |-> "memory", val |-> val,
                              before |-> builder, err |-> "none", after |-> b]
    /\ UNCHANGED <<build, cwVars, parseVars, viewVars, iter, streamVars, probe, monoVars,
                   fileVars, lateVars, restVars>>

\* builder.finalize(): the bytes returned become the parser's input
Finalize ==
    /\ bstate = "open"
    /\ \E b \in {finalize(builder)} :
          /\ builder' = b
          /\ bstate' = IF b.panic THEN "panicked" ELSE "finalized"
          /\ input_buf' = IF b.panic THEN input_buf ELSE b.buf
    /\ UNCHANGED <<build, cwVars, pushed, parsed, viewVars, iter, streamVars, extVars>>

\* LogArray::parse(input_buf)
Parse ==
    /\ bstate \in {"none", "finalized"}
    /\ parsed = NoCall
    /\ \E r \in {parse(input_buf)} :
          /\ parsed' = [called |-> TRUE, fn |-> "parse", res |-> r]
          /\ logarray' = IF r.ok THEN r.array ELSE NoArray
    /\ UNCHANGED <<build, cwVars, buildVars, input_buf, parent, sliced, slices, iter, streamVars, extVars>>

\* logarray.iter()
Iter ==
    /\ logarray # NoArray
    /\ iter = NoIter
    /\ IsSmall(logarray.len)
    /\ iter' = [active |-> TRUE, logarray |-> logarray, pos |-> 0,
                end |-> ToNat(logarray.len), out |-> <<>>, panic |-> FALSE]
    /\ UNCHANGED <<build, cwVars, buildVars, parseVars, viewVars, streamVars, extVars>>

\* LogArrayIterator::next()
IterNext ==
    /\ iter # NoIter
    /\ ~iter.panic
    /\ iter.pos # iter.end
    /\ \E result \in {entry(iter.logarray, FromNat(iter.pos))} :
          iter' = IF result.panic THEN [iter EXCEPT !.panic = TRUE]
                  ELSE [iter EXCEPT !.pos = iter.pos + 1,
                                    !.out = Append(iter.out, result.val)]
    /\ UNCHANGED <<build, cwVars, buildVars, parseVars, viewVars, streamVars, extVars>>

NextBuild == Push \/ Finalize \/ Parse \/ Iter \/ IterNext

SpecBuild == InitBuild /\ [][NextBuild]_vars


\* ------------------------------------------------------------------------
\* Properties of build, parse, iterate
\* ------------------------------------------------------------------------

\* Bit k of the concatenation of the `width`-bit big-endian representations
\* of the values vs, zero past the last element.
RefBit(vs, width, k) ==
    IF k < Len(vs) * width THEN vs[(k \div width) + 1][64 - width + (k % width)] ELSE 0

\* The reference packing: that bit string cut into big-endian 64-bit words.
RefData(vs, width) ==
    [m \in 1..(8 * ((Len(vs) * width + 63) \div 64)) |->
        LET k == 8 * (m - 1) IN
        128 * RefBit(vs, width, k) + 64 * RefBit(vs, width, k + 1)
        + 32 * RefBit(vs, width, k + 2) + 16 * RefBit(vs, width, k + 3)
        + 8 * RefBit(vs, width, k + 4) + 4 * RefBit(vs, width, k + 5)
        + 2 * RefBit(vs, width, k + 6) + RefBit(vs, width, k + 7)]

\* C1: the values pushed into an eager builder of width 0..64 are what the
\* parsed array holds: parse succeeds with length |vs|, entry(i) = vs[i] for
\* every i, and the iterator returns vs in push order.
C1_RoundTrip ==
    /\ (bstate = "finalized" /\ parsed # NoCall) =>
          /\ parsed.res.ok
          /\ logarray.len = FromNat(Len(pushed))
          /\ logarray.width = builder.width
          /\ \A i \in 1..Len(pushed) :
                entry(logarray, FromNat(i - 1)) = Returns(pushed[i])
    /\ (bstate = "finalized" /\ iter # NoIter) =>
          /\ ~iter.panic
          /\ iter.end = Len(pushed)
          /\ iter.out = SubSeq(pushed, 1, iter.pos)

\* The round trip of C1 for the widths 1..64 only.
C1_RoundTripFromWidthOne == builder.width >= 1 => C1_RoundTrip

\* C2: the data bytes the eager builder has written after finalize are the
\* reference packing of the pushed values: element i starts at bit
\* (w*i) mod 64 of word (w*i) div 64, and the bits after the last element
\* are zero.
C2_WireLayout ==
    bstate = "finalized" =>
        Range(input_buf, 0, Len(input_buf) - 8) = RefData(pushed, builder.width)

\* An element that straddles two words has been written and finalized.
C2_Witness ==
    /\ bstate = "finalized"
    /\ \E i \in 1..Len(pushed) :
          /\ (((i - 1) * builder.width) % 64) + builder.width > 64
          /\ pushed[i] = Alternating(builder.width)
    /\ (Len(pushed) * builder.width) % 64 # 0

\* C3: the bytes finalize produces have size ceil((n*w + 64)/64)*8, a
\* multiple of 8, and that is the one size parse accepts for the (n, w) in
\* the trailer.
C3_SizeLaw ==
    bstate = "finalized" =>
        LET n == Len(pushed)
            w == builder.width
            Word0 == <<0, 0, 0, 0, 0, 0, 0, 0>>
            p == parse(input_buf)
        IN /\ Len(input_buf) = ((n * w + 64 + 63) \div 64) * 8
           /\ Len(input_buf) % 8 = 0
           /\ p.ok
           /\ p.array.len = FromNat(n)
           /\ p.array.width = w
           /\ ~parse(Word0 \o input_buf).ok

\* Finalized arrays whose data ends exactly at a word boundary, and not.
C3_Witness ==
    /\ bstate = "finalized"
    /\ Len(pushed) = 2
    /\ builder.width = 32
    /\ Len(input_buf) = 16

\* ------------------------------------------------------------------------
\* Parse a buffer, slice the view
\* ------------------------------------------------------------------------

MaxSlices == 2

\* n bytes of data.
Data(seed, n) == [i \in 1..n |-> (i * seed + 41) % 256]

Seeds == {73, 151}

\* (length, width) pairs of parser inputs: short arrays of every width,
\* widths above 64, and lengths that need the high 24 bits.
SmallShapes == {<<FromNat(n), w>> : n \in 0..MaxLen, w \in Widths \cup {65, 255}}

LargeShapes ==
    {<<LowMask(56), 0>>, <<Shl(FromNat(1), 32), 0>>,
     <<LowMask(56), 64>>, <<Add64(Shl(FromNat(1), 32), FromNat(1)).val, 17>>}

Shapes == SmallShapes \cup LargeShapes

\* Data size of a shape when it is a real buffer size, else 8.
DataSize(shape) ==
    IF shape[2] > 64 \/ ~IsSmall(expected_buf_size(shape[1], shape[2])) THEN 8
    ELSE ToNat(expected_buf_size(shape[1], shape[2])) - 8

\* DATA || CONTROL_WORD with delta bytes more or less data than the shape needs.
TrailerInputs ==
    {Data(seed, DataSize(shape) + delta) \o control_word(shape[1], shape[2]).buf :
        seed \in Seeds, delta \in {0, 1, 8}, shape \in Shapes}
    \cup {From(Data(73, DataSize(shape)) \o control_word(shape[1], shape[2]).buf, 8) :
            shape \in {sh \in Shapes : DataSize(sh) >= 8}}

\* CONTROL_WORD || DATA with extra bytes after the data, or some missing.
HeaderInputs ==
    {control_word(shape[1], shape[2]).buf \o Data(73, DataSize(shape) + extra) :
        extra \in {0, 3, 8}, shape \in Shapes}
    \cup {control_word(shape[1], shape[2]).buf \o Data(73, DataSize(shape) - 1) :
            shape \in {sh \in Shapes : DataSize(sh) >= 8}}

ShortInputs == {Data(73, n) : n \in {0, 3, 7}}

InitView ==
    /\ build \in Builds
    /\ IdleCW
    /\ IdleBuilder
    /\ input_buf \in TrailerInputs \cup HeaderInputs \cup ShortInputs
    /\ IdleView
    /\ IdleExt

\* LogArray::parse_header_first(input_buf)
ParseHeaderFirst ==
    /\ bstate = "none"
    /\ parsed = NoCall
    /\ \E r \in {parse_header_first(input_buf)} :
          /\ parsed' = [called |-> TRUE, fn |-> "parse_header_first", res |-> r]
          /\ logarray' = IF r.ok THEN r.array ELSE NoArray
    /\ UNCHANGED <<build, cwVars, buildVars, input_buf, parent, sliced, slices, iter, streamVars, extVars>>

\* logarray_file_get_length_and_width(f) on a stored file of content input_buf
FileGetLengthAndWidth ==
    /\ bstate = "none"
    /\ parsed = NoCall
    /\ parsed' = [called |-> TRUE, fn |-> "logarray_file_get_length_and_width",
                  res |-> logarray_file_get_length_and_width(input_buf)]
    /\ UNCHANGED <<build, cwVars, buildVars, input_buf, viewVars, iter, streamVars, extVars>>

\* (offset, length) arguments around the bounds of a view of length len.
SliceArgs(len) ==
    LET last == IF len = Zero64 THEN Zero64 ELSE Sub64(len, FromNat(1))
    IN {<<Zero64, len>>, <<FromNat(1), last>>, <<FromNat(1), FromNat(1)>>,
        <<len, Zero64>>, <<FromNat(1), len>>, <<Zero64, Add64(len, FromNat(1)).val>>,
        <<FromNat(2), FromNat(2)>>,
        <<Shl(FromNat(1), 32), FromNat(2)>>, <<LowMask(64), FromNat(2)>>}

\* logarray.slice(offset, len)
Slice ==
    /\ logarray # NoArray
    /\ slices < MaxSlices
    /\ \E args \in SliceArgs(logarray.len) :
          \E r \in {slice(logarray, args[1], args[2])} :
             /\ sliced' = [called |-> TRUE, offset |-> args[1], len |-> args[2],
                           panic |-> r.panic]
             /\ logarray' = IF r.panic THEN NoArray ELSE r.array
    /\ parent' = logarray
    /\ slices' = slices + 1
    /\ UNCHANGED <<build, cwVars, buildVars, parseVars, iter, streamVars, extVars>>

NextView == Parse \/ ParseHeaderFirst \/ FileGetLengthAndWidth \/ Slice

SpecView == InitView /\ [][NextView]_vars

\* ------------------------------------------------------------------------
\* Properties of the parsers
\* ------------------------------------------------------------------------

\* The layout of a control word: bytes 0..3 the low 32 bits of the length,
\* byte 4 the width, bytes 5..7 the high 24 bits of the length.
RefLength(cw) ==
    [i \in Bits |->
        IF i < 8 THEN 0
        ELSE IF i < 32 THEN ByteBit(cw[6 + ((i - 8) \div 8)], i % 8)
        ELSE ByteBit(cw[1 + ((i - 32) \div 8)], i % 8)]

RefWidth(cw) == cw[5]

\* ceil(x / 64) * 8 for a u64 x.
CeilWords8(x) ==
    Shl(Add64(Shr(x, 6),
              IF \E i \in 58..63 : x[i] = 1 THEN FromNat(1) ELSE Zero64).val, 3)

\* ceil((length * width + 64) / 64) * 8
RefTrailerSize(len, width) == CeilWords8(Add64(Mul64(len, width).val, FromNat(64)).val)

\* ceil(length * width / 64) * 8
RefDataSize(len, width) == CeilWords8(Mul64(len, width).val)

\* The outcome of the trailer-form checks, in their order.
RefTrailerOutcome(buf) ==
    LET size == Len(buf)
        cw   == From(buf, size - 8)
    IN IF size < 8 THEN "InputBufferTooSmall"
       ELSE IF RefWidth(cw) > 64 THEN "WidthTooLarge"
       ELSE IF FromNat(size) # RefTrailerSize(RefLength(cw), RefWidth(cw))
       THEN "UnexpectedInputBufferSize"
       ELSE "Ok"

\* The result a trailer-form parser must give on buf: the error with its
\* fields, or the decoded length and width.
TrailerResultIs(res, buf) ==
    LET size    == Len(buf)
        cw      == From(buf, size - 8)
        outcome == RefTrailerOutcome(buf)
    IN CASE outcome = "InputBufferTooSmall" ->
              res = Failed(InputBufferTooSmall(size))
         [] outcome = "WidthTooLarge" ->
              res = Failed(WidthTooLarge(RefWidth(cw)))
         [] outcome = "UnexpectedInputBufferSize" ->
              res = Failed(UnexpectedInputBufferSize(
                               FromNat(size),
                               RefTrailerSize(RefLength(cw), RefWidth(cw)),
                               RefLength(cw), RefWidth(cw)))
         [] OTHER ->
              /\ res.ok
              /\ IF "array" \in DOMAIN res
                 THEN res.array = LogArray(Zero64, RefLength(cw), RefWidth(cw), buf)
                 ELSE res.len = RefLength(cw) /\ res.width = RefWidth(cw)

\* C7: LogArray::parse checks the size against 8, then the width against 64,
\* then the size against ceil((length*width+64)/64)*8, and otherwise returns
\* the view with first = 0; logarray_file_get_length_and_width gives the same
\* errors and the same (length, width).
C7_TrailerParseOutcome ==
    (parsed # NoCall /\ parsed.fn \in {"parse", "logarray_file_get_length_and_width"})
        => TrailerResultIs(parsed.res, input_buf)

\* A width above 64 is reported although the size is wrong as well.
C7_Witness ==
    /\ parsed # NoCall
    /\ parsed.fn = "parse"
    /\ Len(input_buf) = 17
    /\ parsed.res = Failed(WidthTooLarge(65))

\* C8: parse_header_first on at least 8 bytes with a width of at most 64
\* succeeds iff size >= 8 + D, D = ceil(length*width/64)*8; the view is bytes
\* [8, 8+D) with first = 0, the remainder is bytes [8+D, end); a shorter
\* buffer fails with UnexpectedInputBufferSize, a width above 64 with
\* WidthTooLarge.
C8_HeaderFirstParse ==
    (parsed # NoCall /\ parsed.fn = "parse_header_first" /\ Len(input_buf) >= 8) =>
        LET size  == Len(input_buf)
            len   == RefLength(input_buf)
            width == RefWidth(input_buf)
            D     == RefDataSize(len, width)
            need  == Add64(D, FromNat(8)).val
            res   == parsed.res
        IN IF width > 64 THEN res = Failed(WidthTooLarge(width))
           ELSE IF Lt64(FromNat(size), need)
           THEN res = Failed(UnexpectedInputBufferSize(FromNat(size), need, len, width))
           ELSE /\ res.ok
                /\ res.array = LogArray(Zero64, len, width,
                                        Range(input_buf, 8, 8 + ToNat(D)))
                /\ res.rest = From(input_buf, 8 + ToNat(D))
                /\ Range(input_buf, 0, 8) \o res.array.input_buf \o res.rest = input_buf
                /\ (size = 8 + ToNat(D)) => res.rest = <<>>

\* A header-first parse that hands back a remainder after a data region.
C8_Witness ==
    /\ parsed # NoCall
    /\ parsed.fn = "parse_header_first"
    /\ parsed.res.ok
    /\ Len(parsed.res.rest) = 3
    /\ Len(parsed.res.array.input_buf) = 16

\* ------------------------------------------------------------------------
\* Properties of slices
\* ------------------------------------------------------------------------

\* Indexes below n to probe: the first MaxLen + 1 and the last.
Probes(n) ==
    {FromNat(j) : j \in {k \in 0..MaxLen : Lt64(FromNat(k), n)}}
    \cup (IF n = Zero64 THEN {} ELSE {Sub64(n, FromNat(1))})

\* C9: a slice (off, n) of a view, itself parsed or a slice, has length n,
\* the width of the view, and its entry(j) is the view's entry(off + j).
C9_SliceLaw ==
    (sliced # NoCall /\ ~sliced.panic) =>
        /\ logarray.len = sliced.len
        /\ logarray.width = parent.width
        /\ \A j \in Probes(sliced.len) :
              entry(logarray, j) = entry(parent, Add64(sliced.offset, j).val)

\* A slice of a slice whose elements straddle words.
C9_Witness ==
    /\ sliced # NoCall
    /\ ~sliced.panic
    /\ slices = 2
    /\ logarray.width = 17
    /\ logarray.first = FromNat(2)
    /\ logarray.len = FromNat(2)
    /\ ~entry(logarray, FromNat(1)).panic

ChunkSizes == {3, 8, 13}

\* Well-formed trailer-form arrays: any data words, then the control word.
WellFormed ==
    {Data(seed, DataSize(shape)) \o control_word(shape[1], shape[2]).buf :
        seed \in Seeds, shape \in {<<FromNat(n), w>> : n \in 0..MaxLen, w \in Widths}}

InitStream ==
    /\ build \in Builds
    /\ IdleCW
    /\ IdleBuilder
    /\ input_buf \in WellFormed
    /\ IdleView
    /\ IdleExt

\* logarray_stream_entries(f): read and validate the control word of the
\* file, then decode the file from its start
StreamEntries ==
    /\ decoder = NoDecoder
    /\ parsed = NoCall
    /\ \E r \in {logarray_file_get_length_and_width(input_buf)} :
          /\ parsed' = [called |-> TRUE, fn |-> "logarray_stream_entries", res |-> r]
          /\ decoder' = IF r.ok THEN new_unchecked(r.width, r.len) ELSE NoDecoder
    /\ UNCHANGED <<build, cwVars, buildVars, input_buf, viewVars, iter,
                   bytes, read_pos, decoded, extVars>>

\* the reader delivers the next chunk of the file into the queue
ReadChunk ==
    /\ decoder # NoDecoder
    /\ read_pos < Len(input_buf)
    /\ \E n \in ChunkSizes :
          LET to == IF read_pos + n > Len(input_buf) THEN Len(input_buf)
                    ELSE read_pos + n
          IN /\ bytes' = bytes \o Range(input_buf, read_pos, to)
             /\ read_pos' = to
    /\ UNCHANGED <<build, cwVars, buildVars, parseVars, viewVars, iter,
                   decoder, decoded, extVars>>

\* decoder.decode(&mut bytes)
Decode ==
    /\ decoder # NoDecoder
    /\ "panic" \notin DOMAIN decoder
    /\ \E r \in {decode(decoder, bytes)} :
          /\ decoder' = IF r.panic THEN [panic |-> TRUE] ELSE r.decoder
          /\ bytes' = r.bytes
          /\ decoded' = IF r.some THEN Append(decoded, r.item) ELSE decoded
          /\ last_decode' = [called |-> TRUE, decoder |-> decoder, bytes |-> bytes, res |-> r]
    /\ UNCHANGED <<build, cwVars, buildVars, parseVars, viewVars, iter, read_pos, probe,
                   monoVars, fileVars, last_push, lateVars, last_finalize, storeVars>>

NextStream == StreamEntries \/ ReadChunk \/ Decode

SpecStream == InitStream /\ [][NextStream]_vars

\* C4: the elements the streaming decoder returns for a well-formed array of
\* width 0..64 are entry(0), entry(1), ... of the parsed view, and when the
\* decoder has nothing remaining it has returned `length` elements.
C4_StreamEqualsEntries ==
    (decoder # NoDecoder) =>
        LET a == parse(input_buf).array
        IN /\ \A k \in 1..Len(decoded) :
                 entry(a, FromNat(k - 1)) = Returns(decoded[k])
           /\ ("panic" \notin DOMAIN decoder /\ decoder.remaining = Zero64)
                 => FromNat(Len(decoded)) = a.len

\* The agreement of C4 for the widths 1..64 only.
C4_StreamEqualsEntriesFromWidthOne ==
    (decoder # NoDecoder /\ "panic" \notin DOMAIN decoder /\ decoder.width >= 1)
        => C4_StreamEqualsEntries

\* ------------------------------------------------------------------------
\* The length limit of the control word
\* ------------------------------------------------------------------------

\* Control word calls on any length, and the eager builder's finalize.
InitLimit == InitCW \/ InitBuild

NextLimit == NextCW \/ NextBuild

SpecLimit == InitLimit /\ [][NextLimit]_vars

EntryShapes == {<<FromNat(n), w>> : n \in 0..MaxLen, w \in Widths}

\* DATA || CONTROL_WORD and CONTROL_WORD || DATA (|| extra bytes) of those shapes.
EntryInputs ==
    {Data(151, DataSize(shape)) \o control_word(shape[1], shape[2]).buf :
        shape \in EntryShapes}
    \cup {control_word(shape[1], shape[2]).buf \o Data(73, DataSize(shape) + extra) :
            extra \in {0, 3}, shape \in EntryShapes}

InitEntry ==
    /\ build \in Builds
    /\ IdleCW
    /\ IdleBuilder
    /\ input_buf \in EntryInputs
    /\ IdleView
    /\ IdleExt

\* Indexes inside, at and past the end of a view of length len.
EntryIndexes(len) ==
    {Zero64, FromNat(1), len, Add64(len, FromNat(1)).val, LowMask(64)}
    \cup (IF len = Zero64 THEN {} ELSE {Sub64(len, FromNat(1))})

\* logarray.entry(index)
Entry ==
    /\ logarray # NoArray
    /\ \E index \in EntryIndexes(logarray.len) :
          probe' = [called |-> TRUE, array |-> logarray, index |-> index,
                    res |-> entry(logarray, index),
                    reads |-> entry_words(logarray,
                                          times_width(Add64(logarray.first, index),
                                                      logarray.width))]
    /\ UNCHANGED <<build, cwVars, buildVars, parseVars, viewVars, iter, streamVars, monoVars, fileVars, last_push, lateVars, restVars>>

NextEntry == Parse \/ ParseHeaderFirst \/ Slice \/ Entry

SpecEntry == InitEntry /\ [][NextEntry]_vars

\* C11: entry(index) with index >= the length of the view, a parsed array or
\* a slice, panics and returns no value.
C11_OutOfRangeIsFatal ==
    (probe # NoCall /\ ~Lt64(probe.index, probe.array.len)) => probe.res.panic

\* C12: entry(i) with i < length returns a value below 2^width, for every
\* view a parser has returned and every slice of it.
C12_ValueRange ==
    (probe # NoCall /\ Lt64(probe.index, probe.array.len)) =>
        /\ ~probe.res.panic
        /\ \A b \in 0..(63 - probe.array.width) : probe.res.val[b] = 0

\* The value range of C12 for the widths 1..64 only.
C12_ValueRangeFromWidthOne ==
    (probe # NoCall /\ probe.array.width >= 1) => C12_ValueRange

\* C13: entry(i) with i < length on a view of width 0 returns 0, and an
\* eager builder of width 0 accepts push(0); neither shifts by 64 or more.
C13_WidthZero ==
    /\ (probe # NoCall /\ probe.array.width = 0
            /\ Lt64(probe.index, probe.array.len)) => probe.res = Returns(Zero64)
    /\ (builder.width = 0 /\ bstate # "none") => ~builder.panic

\* ------------------------------------------------------------------------
\* MonotonicLogArray
\* ------------------------------------------------------------------------

RECURSIVE validate_from(_, _, _)

\* One round of the validation loop of from_logarray: succ is the result of
\* iter.next() at position pos, pred the element before it.
validate_next(a, pos, pred, succ) ==
    IF succ.panic THEN "entry panicked"
    ELSE IF Lt64(succ.val, pred) THEN "not monotonic"
    ELSE validate_from(a, pos + 1, succ.val)

\* The validation loop of from_logarray from position pos on; the first
\* element has no predecessor, which is the same as a predecessor 0.
validate_from(a, pos, pred) ==
    IF pos = ToNat(a.len) THEN "ok"
    ELSE validate_next(a, pos, pred, entry(a, FromNat(pos)))

\* The MonotonicLogArray for the outcome of the validation.
from_logarray_validated(a, outcome) ==
    [panic |-> outcome # "ok", diagnostic |-> outcome, array |-> a]

\* MonotonicLogArray::from_logarray: only a debug build validates.
from_logarray(a) ==
    IF build = "debug"
    THEN from_logarray_validated(a, validate_from(a, 0, Zero64))
    ELSE from_logarray_validated(a, "ok")

\* Result of a search: the index (some = FALSE for None), whether the call
\* panicked, and the indexes mid at which the search called entry.
Found(val, probes) == [panic |-> FALSE, some |-> TRUE, val |-> val, probes |-> probes]

SearchPanics(probes) == [panic |-> TRUE, some |-> FALSE, val |-> 0, probes |-> probes]

RECURSIVE nearest_loop(_, _, _, _, _)

\* One round of the loop of nearest_index_of: e is entry(mid).
nearest_step(a, element, min, max, mid, e, probes) ==
    IF e.panic THEN SearchPanics(probes)
    \* Ordering::Equal => return mid
    ELSE IF element = e.val THEN Found(mid, probes)
    \* Ordering::Greater => min = mid + 1
    ELSE IF Lt64(e.val, element) THEN nearest_loop(a, element, mid + 1, max, probes)
    \* Ordering::Less
    ELSE IF mid = 0 THEN Found(0, probes)
    ELSE nearest_loop(a, element, min, mid - 1, probes)

\* while min <= max { .. }; (min + max) / 2 + 1
nearest_loop(a, element, min, max, probes) ==
    IF min <= max
    THEN nearest_step(a, element, min, max, (min + max) \div 2,
                      entry(a, FromNat((min + max) \div 2)),
                      Append(probes, (min + max) \div 2))
    ELSE Found(((min + max) \div 2) + 1, probes)

\* MonotonicLogArray::nearest_index_of
nearest_index_of(a, element) ==
    IF a.len = Zero64 THEN Found(0, <<>>)
    ELSE nearest_loop(a, element, 0, ToNat(a.len) - 1, <<>>)

index_of_found_unchecked(a, element, index) ==
    IF index.panic THEN index
    ELSE IF index.val >= ToNat(a.len) THEN [index EXCEPT !.some = FALSE]
    ELSE index

\* MonotonicLogArray::index_of for the index nearest_index_of returned.
index_of_found(a, element, index) ==
    IF index.panic THEN index
    ELSE IF index.val >= ToNat(a.len) THEN [index EXCEPT !.some = FALSE]
    ELSE IF entry(a, FromNat(index.val)).panic THEN SearchPanics(index.probes)
    ELSE IF entry(a, FromNat(index.val)).val # element THEN [index EXCEPT !.some = FALSE]
    ELSE index

\* MonotonicLogArray::index_of
index_of(a, element) == index_of_found(a, element, nearest_index_of(a, element))

MaxMonoLen == 3

\* Widths and element values of the arrays that are searched.
MonoWidths == {2, 33}

MonoValues(width) == {FromNat(1), FromNat(2), LowMask(width)}

\* All sequences of at most MaxMonoLen values: monotonic ones, with and
\* without duplicates, and ones that are not monotonic.
MonoSeqs(width) == UNION {[1..n -> MonoValues(width)] : n \in 0..MaxMonoLen}

MonoShapes == UNION {{<<vs, width>> : vs \in MonoSeqs(width)} : width \in MonoWidths}

\* The packed bytes of those sequences, and arrays of width 0.
MonoInputs ==
    {RefData(shape[1], shape[2]) \o control_word(FromNat(Len(shape[1])), shape[2]).buf :
        shape \in MonoShapes}
    \cup {control_word(FromNat(n), 0).buf : n \in 0..2}

InitMono ==
    /\ build \in Builds
    /\ IdleCW
    /\ IdleBuilder
    /\ input_buf \in MonoInputs
    /\ IdleView
    /\ IdleExt

\* MonotonicLogArray::from_logarray(logarray), also as called by
\* MonotonicLogArray::parse, parse_header_first and From<LogArray>
FromLogarray ==
    /\ logarray # NoArray
    /\ mono_made = NoCall
    /\ \E r \in {from_logarray(logarray)} :
          /\ mono_made' = [called |-> TRUE, panic |-> r.panic,
                           diagnostic |-> r.diagnostic, array |-> logarray]
          /\ mono' = IF r.panic THEN NoArray ELSE r.array
    /\ UNCHANGED <<build, cwVars, buildVars, parseVars, viewVars, iter, streamVars,
                   probe, search, fileVars, last_push, lateVars, restVars>>

\* (offset, length) of the slices taken of a monotonic array of length len.
MonoSliceArgs(len) ==
    IF len = Zero64 THEN {<<Zero64, Zero64>>}
    ELSE {<<FromNat(1), Sub64(len, FromNat(1))>>, <<Zero64, Sub64(len, FromNat(1))>>}

\* monotonic.slice(offset, len)
MonoSlice ==
    /\ mono # NoArray
    /\ search = NoCall
    /\ slices < MaxSlices
    /\ \E args \in MonoSliceArgs(mono.len) :
          \E r \in {slice(mono, args[1], args[2])} :
             mono' = IF r.panic THEN NoArray ELSE r.array
    /\ slices' = slices + 1
    /\ UNCHANGED <<build, cwVars, buildVars, parseVars, logarray, parent, sliced, iter,
                   streamVars, probe, mono_made, search, fileVars, last_push,
                   lateVars, restVars>>

\* The values that are searched for.
Elements(width) ==
    {Zero64, FromNat(1), FromNat(2), FromNat(3), LowMask(width), LowMask(64)}

\* monotonic.nearest_index_of(element)
NearestIndexOf ==
    /\ mono # NoArray
    /\ search = NoCall
    /\ search = NoCall
    /\ \E element \in Elements(mono.width) :
          search' = [called |-> TRUE, fn |-> "nearest_index_of", array |-> mono,
                     element |-> element, res |-> nearest_index_of(mono, element)]
    /\ UNCHANGED <<build, cwVars, buildVars, parseVars, viewVars, iter, streamVars,
                   probe, mono, mono_made, fileVars, last_push, lateVars, restVars>>

\* monotonic.index_of(element)
IndexOf ==
    /\ mono # NoArray
    /\ search = NoCall
    /\ \E element \in Elements(mono.width) :
          search' = [called |-> TRUE, fn |-> "index_of", array |-> mono,
                     element |-> element, res |-> index_of(mono, element)]
    /\ UNCHANGED <<build, cwVars, buildVars, parseVars, viewVars, iter, streamVars,
                   probe, mono, mono_made, fileVars, last_push, lateVars, restVars>>

NextMono == Parse \/ FromLogarray \/ MonoSlice \/ NearestIndexOf \/ IndexOf

SpecMono == InitMono /\ [][NextMono]_vars

\* The elements of a view whose entries can all be read: entry(0), entry(1), ...
Elems(a) == [i \in 1..ToNat(a.len) |-> entry(a, FromNat(i - 1)).val]

Readable(a) == \A i \in 1..ToNat(a.len) : ~entry(a, FromNat(i - 1)).panic

\* Non-decreasing, duplicates allowed.
IsMonotonic(E) == \A i, j \in 1..Len(E) : i < j => Le64(E[i], E[j])

\* The smallest index (from 0) of an element >= v, or the length.
LowerBound(E, v) ==
    IF \E i \in 1..Len(E) : Le64(v, E[i])
    THEN (CHOOSE i \in 1..Len(E) :
              Le64(v, E[i]) /\ \A j \in 1..(i - 1) : Lt64(E[j], v)) - 1
    ELSE Len(E)

\* C14: on a monotonic array nearest_index_of(v) returns the smallest index
\* of an element >= v, or the length when there is none (0 on the empty
\* array), and every entry(mid) of the search has mid < length.
C14_NearestIsLowerBound ==
    (search # NoCall /\ search.fn = "nearest_index_of"
        /\ Readable(search.array) /\ IsMonotonic(Elems(search.array))) =>
        /\ ~search.res.panic
        /\ search.res.val = LowerBound(Elems(search.array), search.element)
        /\ \A k \in 1..Len(search.res.probes) :
              search.res.probes[k] < ToNat(search.array.len)

\* The lower bound of C14 on arrays without duplicates only.
C14_NearestIsLowerBoundNoDuplicates ==
    (search # NoCall /\ Readable(search.array)
        /\ \A i, j \in 1..ToNat(search.array.len) :
               i < j => Elems(search.array)[i] # Elems(search.array)[j])
        => C14_NearestIsLowerBound

\* C15: on a monotonic array index_of(v) returns Some(i) only with
\* i < length and E[i] = v, and None exactly when no element equals v.
C15_IndexOfExact ==
    (search # NoCall /\ search.fn = "index_of"
        /\ Readable(search.array) /\ IsMonotonic(Elems(search.array))) =>
        LET E == Elems(search.array)
        IN /\ ~search.res.panic
           /\ search.res.some =>
                 /\ search.res.val < Len(E)
                 /\ E[search.res.val + 1] = search.element
           /\ ~search.res.some <=> \A i \in 1..Len(E) : E[i] # search.element

\* index_of has found an element that occurs twice, and has missed one.
C15_Witness ==
    /\ search # NoCall
    /\ search.fn = "index_of"
    /\ search.res.some
    /\ search.array.len = FromNat(3)
    /\ Readable(search.array)
    /\ IsMonotonic(Elems(search.array))
    /\ Elems(search.array)[2] = Elems(search.array)[3]
    /\ Elems(search.array)[2] = search.element

\* C16: in a debug build from_logarray panics with 'not monotonic' exactly on
\* the arrays with an adjacent pair entry(i) > entry(i+1), so arrays of at
\* most one element are accepted, and a MonotonicLogArray and every slice of
\* it is non-decreasing.
C16_MonotonicValidated ==
    build = "debug" =>
        /\ mono_made # NoCall =>
              /\ mono_made.panic <=>
                    \E i \in 1..(ToNat(mono_made.array.len) - 1) :
                        Lt64(entry(mono_made.array, FromNat(i)).val,
                             entry(mono_made.array, FromNat(i - 1)).val)
              /\ mono_made.panic => mono_made.diagnostic = "not monotonic"
        /\ mono # NoArray => Readable(mono) /\ IsMonotonic(Elems(mono))

\* The validation of C16 for the widths 1..64 only.
C16_MonotonicValidatedFromWidthOne ==
    (mono_made # NoCall /\ mono_made.array.width >= 1) => C16_MonotonicValidated

\* ------------------------------------------------------------------------
\* Push values that are too wide into the eager builders
\* ------------------------------------------------------------------------

BuilderKinds == {"memory", "file"}

\* One eager builder is open: the in-memory one or the file-backed one.
InitFile ==
    /\ build \in Builds
    /\ IdleCW
    /\ \E width \in Widths : \E kind \in BuilderKinds :
          /\ builder = NewBufBuilder(IF kind = "memory" THEN width ELSE 0)
          /\ bstate = IF kind = "memory" THEN "open" ELSE "none"
          /\ fbuilder = NewFileBuilder(IF kind = "file" THEN width ELSE 0)
          /\ fstate = IF kind = "file" THEN "open" ELSE "none"
    /\ pushed = <<>>
    /\ input_buf = <<>>
    /\ IdleView
    /\ probe = NoCall
    /\ mono = NoArray
    /\ mono_made = NoCall
    /\ search = NoCall
    /\ fpushed = <<>>
    /\ rejected = FALSE
    /\ last_push = NoCall
    /\ late = NewLateBuilder(<<>>)
    /\ lstate = "none"
    /\ late_calls = 0
    /\ IdleRest

\* Values of more than `width` bits: 2^width and 2^64 - 1.
FileTooWide(width) == IF width < 64 THEN {Shl(FromNat(1), width), LowMask(64)} ELSE {}

\* file_builder.push(val).await
FilePush ==
    /\ fstate = "open"
    /\ Len(fpushed) < MaxLen
    /\ \E val \in FittingValues(fbuilder.width) \cup FileTooWide(fbuilder.width) :
          \E r \in {file_push(fbuilder, val)} :
             /\ fbuilder' = r.builder
             /\ fstate' = IF r.builder.panic THEN "panicked" ELSE "open"
             /\ fpushed' = IF r.builder.panic \/ r.err # "none" THEN fpushed
                           ELSE Append(fpushed, val)
             /\ rejected' = (rejected \/ r.err # "none")
             /\ last_push' = [called |-> TRUE, kind |-> "file", val |-> val,
                              before |-> fbuilder, err |-> r.err, after |-> r.builder]
    /\ UNCHANGED <<build, cwVars, buildVars, parseVars, viewVars, iter, streamVars, probe,
                   monoVars, lateVars, restVars>>

\* file_builder.finalize().await
FileFinalize ==
    /\ fstate = "open"
    /\ \E b \in {file_finalize(fbuilder)} :
          /\ fbuilder' = b
          /\ fstate' = IF b.panic THEN "panicked" ELSE "finalized"
    /\ UNCHANGED <<build, cwVars, buildVars, parseVars, viewVars, iter, streamVars, probe,
                   monoVars, fpushed, rejected, last_push, lateVars, restVars>>

NextFile == Push \/ FilePush \/ FileFinalize

SpecFile == InitFile /\ [][NextFile]_vars

\* val >= 2^width: one of the upper 64 - width bits is set.
ExceedsWidth(val, width) == \E b \in 0..(63 - width) : val[b] = 1

\* C17: a push of a value >= 2^width changes nothing in the builder: the
\* in-memory builder panics, the file builder returns an InvalidData error
\* (and only then) with its count, staging word, offset and file as before;
\* and the file that finalize leaves is the packing of the accepted values
\* followed by their control word.
C17_TooWideRejected ==
    /\ (last_push # NoCall /\ ExceedsWidth(last_push.val, last_push.before.width)) =>
          IF last_push.kind = "memory"
          THEN /\ last_push.after = [last_push.before EXCEPT !.panic = TRUE]
               /\ bstate = "panicked"
          ELSE /\ last_push.err = "InvalidData"
               /\ last_push.after = last_push.before
               /\ ~last_push.after.panic
    /\ (last_push # NoCall /\ last_push.err = "InvalidData") =>
          ExceedsWidth(last_push.val, last_push.before.width)
    /\ fstate = "finalized" =>
          fbuilder.file = RefData(fpushed, fbuilder.width)
                             \o control_word(FromNat(Len(fpushed)), fbuilder.width).buf

\* A file builder of width 33 has rejected a push, accepted later ones and
\* was finalized with two elements.
C17_Witness ==
    /\ fstate = "finalized"
    /\ rejected
    /\ fbuilder.width = 33
    /\ Len(fpushed) = 2
    /\ last_push.kind = "file"
    /\ last_push.err = "none"

\* ------------------------------------------------------------------------
\* Build with the deferred-width builder, parse, iterate
\* ------------------------------------------------------------------------

MaxLateCalls == 3

\* Values of 0, 1, 33 and 64 bits.
LateValues == {Zero64, FromNat(1), LowMask(33), LowMask(64)}

LateVecs == {<<>>, <<FromNat(1), LowMask(33)>>}

InitLate ==
    /\ build \in Builds
    /\ IdleCW
    /\ IdleBuilder
    /\ input_buf = <<>>
    /\ IdleView
    /\ probe = NoCall
    /\ mono = NoArray
    /\ mono_made = NoCall
    /\ search = NoCall
    /\ fbuilder = NewFileBuilder(0)
    /\ fstate = "none"
    /\ fpushed = <<>>
    /\ rejected = FALSE
    /\ last_push = NoCall
    /\ late = NewLateBuilder(<<>>)
    /\ lstate = "open"
    /\ late_calls = 0
    /\ IdleRest

\* late_builder.push(val)
LatePush ==
    /\ lstate = "open"
    /\ late_calls < MaxLateCalls
    /\ \E val \in LateValues : late' = late_push(late, val)
    /\ late_calls' = late_calls + 1
    /\ UNCHANGED <<build, cwVars, buildVars, parseVars, viewVars, iter, streamVars, probe,
                   monoVars, fileVars, last_push, lstate, restVars>>

\* late_builder.push_vec(vals)
LatePushVec ==
    /\ lstate = "open"
    /\ late_calls < MaxLateCalls
    /\ \E vals \in LateVecs : late' = late_push_vec(late, vals)
    /\ late_calls' = late_calls + 1
    /\ UNCHANGED <<build, cwVars, buildVars, parseVars, viewVars, iter, streamVars, probe,
                   monoVars, fileVars, last_push, lstate, restVars>>

\* late_builder.pop()
LatePop ==
    /\ lstate = "open"
    /\ late_calls < MaxLateCalls
    /\ late' = late_pop(late)
    /\ late_calls' = late_calls + 1
    /\ UNCHANGED <<build, cwVars, buildVars, parseVars, viewVars, iter, streamVars, probe,
                   monoVars, fileVars, last_push, lstate, restVars>>

\* late_builder.finalize(): the bytes returned become the parser's input
LateFinalize ==
    /\ lstate = "open"
    /\ \E b \in {late_finalize(late)} :
          /\ lstate' = IF b.panic THEN "panicked" ELSE "finalized"
          /\ input_buf' = IF b.panic THEN input_buf ELSE b.buf
    /\ UNCHANGED <<build, cwVars, buildVars, parsed, viewVars, iter, streamVars, probe,
                   monoVars, fileVars, last_push, late, late_calls, restVars>>

\* late_builder.finalize_header_first()
LateFinalizeHeaderFirst ==
    /\ lstate = "open"
    /\ \E b \in {late_finalize_header_first(late)} :
          /\ lstate' = IF b.panic THEN "panicked" ELSE "finalized_header_first"
          /\ input_buf' = IF b.panic THEN input_buf ELSE b.buf
    /\ UNCHANGED <<build, cwVars, buildVars, parsed, viewVars, iter, streamVars, probe,
                   monoVars, fileVars, last_push, late, late_calls, restVars>>

\* LogArray::parse of the bytes of finalize
LateParse == lstate = "finalized" /\ Parse

\* LogArray::parse_header_first of the bytes of finalize_header_first
LateParseHeaderFirst == lstate = "finalized_header_first" /\ ParseHeaderFirst

NextLate ==
    \/ LatePush
    \/ LatePushVec
    \/ LatePop
    \/ LateFinalize
    \/ LateFinalizeHeaderFirst
    \/ LateParse
    \/ LateParseHeaderFirst
    \/ Iter
    \/ IterNext

SpecLate == InitLate /\ [][NextLate]_vars

\* The number of bits of v: 0 for 0, else 64 minus the index of its top bit.
BitLength(v) ==
    IF v = Zero64 THEN 0
    ELSE 64 - (CHOOSE b \in Bits : v[b] = 1 /\ \A c \in 0..(b - 1) : v[c] = 0)

\* The least width in which every value of vs fits.
MinWidth(vs) ==
    IF vs = <<>> THEN 0
    ELSE CHOOSE w \in 0..64 :
            /\ \A i \in 1..Len(vs) : BitLength(vs[i]) <= w
            /\ \E i \in 1..Len(vs) : BitLength(vs[i]) = w

\* The buffered values are what a view and an iterator over it return.
YieldsBuffered ==
    /\ parsed # NoCall =>
          /\ parsed.res.ok
          /\ logarray.len = late_count(late)
          /\ \A i \in 1..Len(late.vals) :
                entry(logarray, FromNat(i - 1)) = Returns(late.vals[i])
    /\ iter # NoIter =>
          /\ ~iter.panic
          /\ iter.end = Len(late.vals)
          /\ iter.out = SubSeq(late.vals, 1, iter.pos)

\* C18: after any pushes, push_vecs and pops the bytes of finalize parse to
\* an array of length |vs| whose width is the least width that holds the
\* values vs buffered at finalize.
C18_MinimalWidth ==
    (lstate = "finalized" /\ parsed # NoCall) =>
        /\ parsed.res.ok
        /\ logarray.len = late_count(late)
        /\ logarray.width = MinWidth(late.vals)

\* C18, and the array iterates to vs, where the running maximum is the
\* width of the buffered values and is not 0.
C18_MinimalWidthWhenMaxIsCurrent ==
    (lstate = "finalized" /\ late.width = MinWidth(late.vals) /\ late.width >= 1) =>
        C18_MinimalWidth /\ YieldsBuffered

\* C19: a deferred builder that holds only zeros, or nothing, finalizes with
\* width 0 to the 8 bytes of the control word, and the bytes of a single 0
\* parse to length 1, width 0 with entry(0) = 0.
C19_SingleZero ==
    /\ (lstate # "none" /\ late_calls = Len(late.vals)
           /\ \A i \in 1..Len(late.vals) : late.vals[i] = Zero64) =>
          /\ late.width = 0
          /\ lstate # "panicked"
    /\ (lstate = "finalized" /\ late_calls = 1 /\ late.vals = <<Zero64>>) =>
          /\ Len(input_buf) = 8
          /\ parsed # NoCall =>
                /\ parsed.res.ok
                /\ logarray.len = FromNat(1)
                /\ logarray.width = 0
                /\ entry(logarray, Zero64) = Returns(Zero64)

\* The bytes of C19: a finalize with width 0 returns the control word only.
C19_WidthZeroBytes ==
    (lstate = "finalized" /\ late.width = 0) =>
        input_buf = control_word(late_count(late), 0).buf

\* C20: finalize_header_first returns the control word of (|vs|, width), then
\* the data words that finalize writes before its control word, which is the
\* same control word, and nothing after; parse_header_first of it gives a
\* view that iterates to vs and an empty remainder.
C20_HeaderFirst ==
    lstate = "finalized_header_first" =>
        /\ ~late_finalize(late).panic
        /\ Range(input_buf, 0, 8) = From(late_finalize(late).buf, Len(input_buf) - 8)
        /\ From(input_buf, 8) = Range(late_finalize(late).buf, 0, Len(input_buf) - 8)
        /\ Len(input_buf) = Len(late_finalize(late).buf)
        /\ Range(input_buf, 0, 8) = control_word(late_count(late), late.width).buf
        /\ parsed # NoCall => parsed.res.ok /\ parsed.res.rest = <<>>
        /\ YieldsBuffered

\* The header-first build of C20 for the widths 1..64 only.
C20_HeaderFirstFromWidthOne == late.width >= 1 => C20_HeaderFirst

\* ------------------------------------------------------------------------
\* Properties of the streaming decoder's use of its input queue
\* ------------------------------------------------------------------------

\* The decoder runs and has not panicked.
Decoding == decoder # NoDecoder /\ "panic" \notin DOMAIN decoder

\* Number of bytes the decoder has removed from the queue so far.
Consumed == read_pos - Len(bytes)

\* ceil(length * width / 64) * 8 for the array that is streamed.
NeededBytes == ToNat(RefDataSize(parsed.res.len, parsed.res.width))

\* No decode call has yet found remaining = 0.
NotCalledAtEnd == last_decode = NoCall \/ last_decode.decoder.remaining # Zero64

\* The element counts of C21: never more than `length` elements, `length`
\* of them when nothing remains, and None from every call after that.
ReturnsLengthElements ==
    /\ Len(decoded) <= ToNat(parsed.res.len)
    /\ decoder.remaining = Zero64 => FromNat(Len(decoded)) = parsed.res.len
    /\ (last_decode # NoCall /\ last_decode.decoder.remaining = Zero64) =>
          ~last_decode.res.some

\* C21: a decoder on a well-formed stream returns `length` elements and then
\* None; it removes ceil(length * width / 64) words from the queue, all of
\* them once nothing remains, and never a byte that follows them.
C21_DecoderConsumption ==
    Decoding =>
        /\ ReturnsLengthElements
        /\ Consumed <= NeededBytes
        /\ decoder.remaining = Zero64 => Consumed = NeededBytes

\* C21 up to the first decode call that finds nothing remaining.
C21_ConsumptionBeforeEnd == NotCalledAtEnd => C21_DecoderConsumption

\* C22: a decode call with elements remaining, a new word needed and fewer
\* than 8 bytes queued returns None and changes neither the queue nor the
\* decoder; while elements remain a call removes nothing or the first 8
\* bytes of the queue.
C22_Backpressure ==
    last_decode # NoCall =>
        LET d == last_decode.decoder
            q == last_decode.bytes
            r == last_decode.res
        IN /\ (d.remaining # Zero64 /\ d.offset + d.width > 64 /\ Len(q) < 8) =>
                 /\ ~r.some
                 /\ ~r.panic
                 /\ r.bytes = q
                 /\ r.decoder = d
           /\ d.remaining # Zero64 =>
                 \/ r.bytes = q
                 \/ Len(q) >= 8 /\ r.bytes = From(q, 8)

\* In the middle of a stream a decode call has found part of a word queued.
C22_Witness ==
    /\ last_decode # NoCall
    /\ last_decode.decoder.remaining # Zero64
    /\ last_decode.decoder.offset + last_decode.decoder.width > 64
    /\ Len(last_decode.bytes) \in 1..7
    /\ Len(decoded) >= 1
    /\ ~last_decode.res.some

\* Bit i of a byte sequence, the most significant bit of a byte first.
BufBit(buf, i) == ByteBit(buf[(i \div 8) + 1], i % 8)

\* Element k (from 0) of the `width`-bit elements packed in buf.
StreamElement(buf, width, k) ==
    [b \in Bits |-> IF b < 64 - width THEN 0 ELSE BufBit(buf, k * width + b - (64 - width))]

\* C28: the elements the decoder has emitted are a function of the stream
\* and (width, length) alone, whatever the chunks they arrived in and however
\* many calls returned None: element k is the k-th `width`-bit field of the
\* stream, all `length` of them are emitted, and a run panics only in a debug
\* build at width 0, before it emits anything.
C28_ChunkingIndependence ==
    decoder # NoDecoder =>
        /\ \A k \in 1..Len(decoded) :
              decoded[k] = StreamElement(input_buf, parsed.res.width, k - 1)
        /\ Decoding =>
              /\ Len(decoded) <= ToNat(parsed.res.len)
              /\ decoder.remaining = Zero64 => FromNat(Len(decoded)) = parsed.res.len
              /\ decoder.remaining = Sub64(parsed.res.len, FromNat(Len(decoded)))
        /\ ~Decoding =>
              /\ build = "debug"
              /\ parsed.res.width = 0
              /\ decoded = <<>>

\* A stream of elements of width 33 was decoded to its end from chunks that
\* ended inside a word.
C28_Witness ==
    /\ Decoding
    /\ parsed.res.width = 33
    /\ decoder.remaining = Zero64
    /\ Len(decoded) >= 3
    /\ last_decode.decoder.remaining # Zero64
    /\ read_pos % 8 # 0

\* ------------------------------------------------------------------------
\* The layout of the control word
\* ------------------------------------------------------------------------

FilePushSink ==
    /\ fstate = "open"
    /\ Len(fpushed) < MaxLen
    /\ \E val \in FittingValues(fbuilder.width) \cup FileTooWide(fbuilder.width) :
       \E sink_ok \in BOOLEAN :
          \E r \in {file_push_to(fbuilder, val, sink_ok)} :
             /\ fbuilder' = r.builder
             /\ fstate' = IF r.builder.panic THEN "panicked"
                          ELSE IF r.err = "WriteFailed" THEN "failed" ELSE "open"
             /\ fpushed' = IF r.builder.panic \/ r.err # "none" THEN fpushed
                           ELSE Append(fpushed, val)
             /\ rejected' = (rejected \/ r.err # "none")
             /\ last_push' = [called |-> TRUE, kind |-> "file", val |-> val,
                              before |-> fbuilder, err |-> r.err, after |-> r.builder]
    /\ UNCHANGED <<build, cwVars, buildVars, parseVars, viewVars, iter, streamVars, probe,
                   monoVars, lateVars, restVars>>

\* The sink call of finalize that fails: none, or the first to the fourth.
SinkFailures == 0..4

\* file_builder.finalize().await on a sink of which one call may fail
FileFinalizeSink ==
    /\ fstate = "open"
    /\ \E fail \in SinkFailures :
          \E r \in {file_finalize_to(fbuilder, fail)} :
             /\ fbuilder' = r.builder
             /\ fstate' = IF r.builder.panic THEN "panicked"
                          ELSE IF r.err # "none" THEN "failed" ELSE "finalized"
             /\ last_finalize' = [called |-> TRUE, before |-> fbuilder, fail |-> fail,
                                  res |-> r]
    /\ UNCHANGED <<build, cwVars, buildVars, parseVars, viewVars, iter, streamVars, probe,
                   monoVars, fpushed, rejected, last_push, lateVars, last_decode, storeVars>>

NextSink == Push \/ FilePushSink \/ FileFinalizeSink

SpecSink == InitFile /\ [][NextSink]_vars

\* The staging word of a builder: offset is in 0..63 and no bit of `current`
\* at or after `offset` (counted from the most significant bit) is set.
StagingWordClean(b) ==
    /\ b.offset \in 0..63
    /\ \A i \in 0..63 : i >= b.offset => b.current[i] = 0

\* C24: after any pushes into an eager builder, whether each returned
\* normally or with an error (a value too wide, or a failed write to the
\* sink), offset is in 0..63 and every bit of the staging word at a position
\* at or after offset is zero.
C24_StagingWord ==
    /\ (bstate = "open" /\ ~builder.panic) => StagingWordClean(builder)
    /\ (fstate \in {"open", "failed"} /\ last_finalize = NoCall /\ ~fbuilder.panic)
          => StagingWordClean(fbuilder)

\* The staging word of C24 as long as no write to the sink has failed.
C24_StagingWordWhileSinkAccepts ==
    (last_push = NoCall \/ last_push.err # "WriteFailed") => C24_StagingWord

\* A push whose write of the full word failed has returned.
C24_WriteFailed ==
    /\ last_push # NoCall
    /\ last_push.err = "WriteFailed"
    /\ last_finalize = NoCall


\* ------------------------------------------------------------------------
\* The order of the sink calls of LogArrayFileBuilder::finalize
\* ------------------------------------------------------------------------

\* The last finalize of the file builder ran to its end or to an error.
Finalized == last_finalize # NoCall /\ ~last_finalize.res.builder.panic

\* (count * width) mod 64 != 0 for the builder that was finalized.
NeedsDataWord(b) == (ToNat(b.count) * b.width) % 64 # 0

\* The sink calls of a finalize that meets no error, in order.
ExpectedSinkCalls(b) ==
    (IF NeedsDataWord(b) THEN <<"write_u64">> ELSE <<>>) \o <<"write_all", "flush", "sync_all">>

\* The last 8 bytes of a file.
LastWord(file) == From(file, Len(file) - 8)

\* C25: finalize of the file builder calls the sink in this order: a write
\* of the staging word exactly when (count * width) mod 64 != 0, a write of
\* the 8 byte control word, flush, sync_all. The control word is the last 8
\* bytes written and nothing is written after sync_all; a call that fails
\* is the last call made and finalize returns its error.
C25_FinalizeOrder ==
    Finalized =>
        \E calls \in {last_finalize.res.ops} :
        \E expected \in {ExpectedSinkCalls(last_finalize.before)} :
        \E made \in {Len(last_finalize.res.ops)} :
            /\ made <= Len(expected)
            /\ \A i \in 1..made : calls[i].op = expected[i]
            /\ \A i \in 1..made : i < made => calls[i].ok
            /\ (last_finalize.res.err = "none")
                  <=> (made = Len(expected) /\ \A i \in 1..made : calls[i].ok)
            /\ (last_finalize.res.err # "none") <=> (made >= 1 /\ ~calls[made].ok)
            /\ (last_finalize.res.err = "none") =>
                  /\ calls[made].op = "sync_all"
                  /\ LastWord(fbuilder.file)
                        = control_word(last_finalize.before.count,
                                       last_finalize.before.width).buf
                  /\ Range(fbuilder.file, 0, Len(fbuilder.file) - 8)
                        = last_finalize.before.file
                          \o (IF NeedsDataWord(last_finalize.before)
                              THEN put_u64(last_finalize.before.current) ELSE <<>>)

\* A finalize with a data word to write made its four sink calls.
C25_Witness ==
    /\ Finalized
    /\ NeedsDataWord(last_finalize.before)
    /\ last_finalize.res.err = "none"
    /\ Len(last_finalize.res.ops) = 4

\* A finalize stopped at a failed write of the control word.
C25_StoppedAtControlWord ==
    /\ Finalized
    /\ last_finalize.res.err # "none"
    /\ Len(last_finalize.res.ops) >= 1
    /\ last_finalize.res.ops[Len(last_finalize.res.ops)].op = "write_all"

\* ------------------------------------------------------------------------
\* The two eager builders side by side
\* ------------------------------------------------------------------------

\* A LogArrayBufBuilder and a LogArrayFileBuilder of the same width.
InitPair ==
    /\ build \in Builds
    /\ IdleCW
    /\ \E width \in Widths :
          /\ builder = NewBufBuilder(width)
          /\ fbuilder = NewFileBuilder(width)
    /\ bstate = "open"
    /\ fstate = "open"
    /\ pushed = <<>>
    /\ input_buf = <<>>
    /\ IdleView
    /\ probe = NoCall
    /\ mono = NoArray
    /\ mono_made = NoCall
    /\ search = NoCall
    /\ fpushed = <<>>
    /\ rejected = FALSE
    /\ last_push = NoCall
    /\ late = NewLateBuilder(<<>>)
    /\ lstate = "none"
    /\ late_calls = 0
    /\ IdleRest

\* builder.push(val) and file_builder.push(val).await with the same value
PushBoth ==
    /\ bstate = "open"
    /\ fstate = "open"
    /\ Len(pushed) < MaxLen
    /\ \E val \in FittingValues(builder.width) :
          \E b \in {push(builder, val)} : \E r \in {file_push(fbuilder, val)} :
             /\ builder' = b
             /\ bstate' = IF b.panic THEN "panicked" ELSE "open"
             /\ pushed' = IF b.panic THEN pushed ELSE Append(pushed, val)
             /\ fbuilder' = r.builder
             /\ fstate' = IF r.builder.panic THEN "panicked" ELSE "open"
             /\ fpushed' = IF r.builder.panic \/ r.err # "none" THEN fpushed
                           ELSE Append(fpushed, val)
             /\ rejected' = (rejected \/ r.err # "none")
             /\ last_push' = [called |-> TRUE, kind |-> "both", val |-> val,
                              before |-> builder, err |-> r.err, after |-> b]
    /\ UNCHANGED <<build, cwVars, input_buf, parseVars, viewVars, iter, streamVars, probe,
                   monoVars, lateVars, restVars>>

\* builder.finalize() and file_builder.finalize().await
FinalizeBoth ==
    /\ bstate = "open"
    /\ fstate = "open"
    /\ \E b \in {finalize(builder)} : \E f \in {file_finalize(fbuilder)} :
          /\ builder' = b
          /\ bstate' = IF b.panic THEN "panicked" ELSE "finalized"
          /\ fbuilder' = f
          /\ fstate' = IF f.panic THEN "panicked" ELSE "finalized"
    /\ UNCHANGED <<build, cwVars, pushed, input_buf, parseVars, viewVars, iter, streamVars,
                   probe, monoVars, fpushed, rejected, last_push, lateVars, restVars>>

NextPair == PushBoth \/ FinalizeBoth

SpecPair == InitPair /\ [][NextPair]_vars

\* C26: fed the same fitting values, the in-memory builder and the file
\* builder of any width hold the same current, offset and count after every
\* push, and the bytes the one has appended to its buffer are the bytes the
\* other has written to its file, after every push and after finalize.
C26_BuildersAgree ==
    /\ builder.panic = fbuilder.panic
    /\ bstate = fstate
    /\ pushed = fpushed
    /\ builder.width = fbuilder.width
    /\ builder.current = fbuilder.current
    /\ builder.offset = fbuilder.offset
    /\ builder.count = fbuilder.count
    /\ builder.buf = fbuilder.file

\* Both builders were finalized after a value straddled two words.
C26_Witness ==
    /\ bstate = "finalized"
    /\ fstate = "finalized"
    /\ builder.width = 33
    /\ Len(pushed) >= 3
    /\ pushed[2] # Zero64
    /\ Len(fbuilder.file) >= 24

\* ceil(bits / 64)
WordsFor(bits) == (bits + 63) \div 64

\* The bits pushed so far into a builder: count * width.
BitsPushed(b) == ToNat(b.count) * b.width

\* The accounting of C27 for a builder that has emitted `out`.
BitsAccounted(b, state, out) ==
    /\ state = "open" =>
          /\ 64 * (Len(out) \div 8) + b.offset = BitsPushed(b)
          /\ Len(out) % 8 = 0
          /\ (BitAnd(Mul64(b.count, b.width).val, LowMask(6)) # Zero64) <=> (b.offset # 0)
    /\ state = "finalized" =>
          /\ Len(out) = 8 * WordsFor(BitsPushed(b)) + 8
          /\ Len(out) - 8 * (BitsPushed(b) \div 64) \in {8, 16}

\* C27: after every successful push into an eager builder,
\* 64 * (data words emitted) + offset = count * width; the condition of
\* finalize_data holds exactly when offset is not 0; finalize emits at most
\* one more data word, and ceil(count * width / 64) data words in total.
C27_BitsAccounted ==
    /\ BitsAccounted(builder, bstate, builder.buf)
    /\ BitsAccounted(fbuilder, fstate, fbuilder.file)

\* A finalize added the word that was being filled after two words went out.
C27_Witness ==
    /\ bstate = "finalized"
    /\ fstate = "finalized"
    /\ builder.offset # 0
    /\ Len(builder.buf) = 32
    /\ Len(fbuilder.file) = 32

\* ------------------------------------------------------------------------
\* The bytes that LogArray::entry reads
\* ------------------------------------------------------------------------

\* One entry call on a view: the views are sliced before they are indexed.
SliceUnprobed == probe = NoCall /\ Slice

EntryOnce == probe = NoCall /\ Entry

NextReads == Parse \/ ParseHeaderFirst \/ SliceUnprobed \/ EntryOnce

SpecReads == InitEntry /\ [][NextReads]_vars

\* An entry call with an index inside a view of width 1..64.
InRangeProbe ==
    /\ probe # NoCall
    /\ probe.array.width >= 1
    /\ Lt64(probe.index, probe.array.len)

\* The first bit of element `index` of view a, counted from the start of
\* the data.
FirstBit(a, index) == a.width * (ToNat(a.first) + ToNat(index))

\* The number of bytes of the data words of the array that was parsed.
DataBytes == 8 * WordsFor(ToNat(parsed.res.array.len) * parsed.res.array.width)

\* The positions in the view's buffer that the call has read.
BytesRead(reads) ==
    {ToNat(reads.first_word) + k : k \in 0..7}
    \cup (IF reads.second_word THEN {ToNat(reads.first_word) + 8 + k : k \in 0..7} ELSE {})

\* C29: on a view that parse or parse_header_first returned, or a slice of
\* it, of width >= 1, entry(index) with index < length reads only bytes of
\* the ceil(N * width / 64) data words: no byte of a trailer control word
\* and no byte past the end of the buffer; it reads the word that holds the
\* first bit of the element, and the next word only when the element
\* straddles two words.
C29_EntryReadsData ==
    InRangeProbe =>
        /\ ~probe.res.panic
        /\ IsSmall(probe.reads.first_word)
        /\ ToNat(probe.reads.first_word) = 8 * (FirstBit(probe.array, probe.index) \div 64)
        /\ probe.reads.second_word
              <=> (FirstBit(probe.array, probe.index) % 64) + probe.array.width > 64
        /\ \A pos \in BytesRead(probe.reads) :
              /\ pos < DataBytes
              /\ pos < Len(probe.array.input_buf)
        /\ DataBytes <= Len(probe.array.input_buf)
        /\ parsed.fn = "parse" => DataBytes = Len(probe.array.input_buf) - 8

\* entry read the last element of a trailer-parsed array of width 64: the
\* word just before the control word.
C29_Witness ==
    /\ InRangeProbe
    /\ parsed.fn = "parse"
    /\ probe.array.width = 64
    /\ ~probe.reads.second_word
    /\ ToNat(probe.reads.first_word) + 8 = DataBytes

\* entry read both words of an element that straddles them.
C29_Straddles ==
    /\ InRangeProbe
    /\ probe.reads.second_word
    /\ ToNat(probe.reads.first_word) + 16 = DataBytes

\* ------------------------------------------------------------------------
\* Writers and readers on clones of one MemoryBackedStore
\* ------------------------------------------------------------------------

\* Writes made through one writer.
MaxWrites == 2

\* The bytes of the k-th write through writer w: one or two bytes that name
\* the writer and the write.
Chunk(w, k) == IF k % 2 = 1 THEN <<16 * w + k>> ELSE <<16 * w + k, 16 * w + k>>

\* Offsets given to open_read_from and buffer lengths given to read.
ReadOffsets == {0, 2}

ReadLengths == {1, 2}

nonStoreVars == <<build, cwVars, buildVars, parseVars, viewVars, iter, streamVars, probe,
                  monoVars, fileVars, last_push, lateVars, last_decode, last_finalize>>

InitStore ==
    /\ build \in Builds
    /\ IdleCW
    /\ IdleBuilder
    /\ input_buf = <<>>
    /\ IdleView
    /\ IdleExt

\* store.open_write().await
OpenWrite ==
    /\ \E w \in Writers :
          /\ writers[w].state = "none"
          /\ writers' = [writers EXCEPT ![w] = open_write]
    /\ UNCHANGED <<nonStoreVars, store, last_sync, observed, mapped, reader>>

\* writer.write(buf)
Write ==
    /\ \E w \in Writers :
          /\ writers[w].state = "open"
          /\ writers[w].writes < MaxWrites
          /\ writers' = [writers EXCEPT
                            ![w] = [write(writers[w], Chunk(w, writers[w].writes + 1))
                                       EXCEPT !.writes = writers[w].writes + 1]]
    /\ UNCHANGED <<nonStoreVars, store, last_sync, observed, mapped, reader>>

\* writer.sync_all().await: consumes the writer
SyncAll ==
    /\ \E w \in Writers :
          /\ writers[w].state = "open"
          /\ store' = sync_all(store, writers[w])
          /\ writers' = [writers EXCEPT ![w].state = "synced"]
          /\ last_sync' = w
    /\ UNCHANGED <<nonStoreVars, observed, mapped, reader>>

\* The writer is dropped without sync_all.
Drop ==
    /\ \E w \in Writers :
          /\ writers[w].state = "open"
          /\ writers' = [writers EXCEPT ![w].state = "dropped"]
    /\ UNCHANGED <<nonStoreVars, store, last_sync, observed, mapped, reader>>

\* No call of a reader was made yet.
Unobserved == observed = NoCall /\ mapped = NoCall /\ reader = NoCall

\* store.exists().await
Exists ==
    /\ Unobserved
    /\ observed' = [called |-> TRUE, op |-> "exists", at |-> last_sync, res |-> exists(store)]
    /\ UNCHANGED <<nonStoreVars, store, writers, last_sync, mapped, reader>>

\* store.size().await
Size ==
    /\ Unobserved
    /\ observed' = [called |-> TRUE, op |-> "size", at |-> last_sync,
                    res |-> store_size(store)]
    /\ UNCHANGED <<nonStoreVars, store, writers, last_sync, mapped, reader>>

\* store.map().await: the caller keeps the buffer
Map ==
    /\ Unobserved
    /\ mapped' = [called |-> TRUE, at |-> last_sync, res |-> map(store)]
    /\ UNCHANGED <<nonStoreVars, store, writers, last_sync, observed, reader>>

\* store.open_read_from(offset).await
OpenReadFrom ==
    /\ Unobserved
    /\ \E offset \in ReadOffsets : \E r \in {open_read_from(store, offset)} :
          reader' = [called |-> TRUE, at |-> last_sync, from |-> offset,
                     panic |-> r.panic,
                     rd |-> IF r.panic THEN [bytes |-> <<>>, pos |-> 0] ELSE r.val,
                     out |-> <<>>]
    /\ UNCHANGED <<nonStoreVars, store, writers, last_sync, observed, mapped>>

\* reader.read(buf) (poll_read) with a buffer of n bytes
Read ==
    /\ reader # NoCall
    /\ ~reader.panic
    /\ \E n \in ReadLengths : \E r \in {read(reader.rd, n)} :
          reader' = IF r.panic THEN [reader EXCEPT !.panic = TRUE]
                    ELSE [reader EXCEPT !.rd = r.val.reader,
                                        !.out = reader.out \o r.val.got]
    /\ UNCHANGED <<nonStoreVars, store, writers, last_sync, observed, mapped>>

NextStore ==
    OpenWrite \/ Write \/ SyncAll \/ Drop \/ Exists \/ Size \/ Map \/ OpenReadFrom \/ Read

SpecStore == InitStore /\ [][NextStore]_vars

\* Everything written through writer w in its first n writes.
RECURSIVE Stream(_, _)
Stream(w, n) == IF n = 0 THEN <<>> ELSE Stream(w, n - 1) \o Chunk(w, n)

\* Everything that was written through writer w.
Written(w) == Stream(w, writers[w].writes)

\* Writer w completed sync_all.
Completed(w) == w \in Writers /\ writers[w].state = "synced"

\* C30: under any interleaving of writers and readers on one store, the
\* store is nonexistent until a sync_all completes, and then holds exactly
\* all the bytes written through the writer whose sync_all completed last;
\* exists, size, map and open_read_from observe nothing else, a writer
\* dropped without sync_all leaves the contents as they were, and a buffer
\* that map returned, like the bytes of a reader, stays as it was when
\* later syncs replace the contents.
C30_AtomicPublish ==
    /\ last_sync = 0 => store = Nonexistent
    /\ last_sync # 0 => Completed(last_sync) /\ store = Existent(Written(last_sync))
    /\ \A w \in Writers : writers[w].state # "none" => writers[w].bytes = Written(w)
    /\ observed # NoCall =>
          /\ observed.at # 0 => Completed(observed.at)
          /\ observed.op = "exists" => observed.res = Returns(observed.at # 0)
          /\ observed.op = "size" =>
                IF observed.at = 0 THEN observed.res.panic
                ELSE observed.res = Returns(Len(Written(observed.at)))
    /\ mapped # NoCall =>
          IF mapped.at = 0 THEN ~mapped.res.ok
          ELSE /\ Completed(mapped.at)
               /\ mapped.res.ok
               /\ mapped.res.val = Written(mapped.at)
    /\ reader # NoCall =>
          IF reader.at = 0 THEN reader.panic
          ELSE /\ Completed(reader.at)
               /\ ~reader.panic => reader.rd.bytes = Written(reader.at)
               /\ (~reader.panic /\ reader.from <= Len(reader.rd.bytes)) =>
                     /\ reader.rd.pos <= Len(reader.rd.bytes)
                     /\ reader.out = Range(reader.rd.bytes, reader.from, reader.rd.pos)

\* A buffer that map returned is held while another writer's sync_all has
\* replaced the contents and a third of the writes went to a dropped writer.
C30_Witness ==
    /\ mapped # NoCall
    /\ mapped.res.ok
    /\ Len(mapped.res.val) = 3
    /\ last_sync # 0
    /\ last_sync # mapped.at
    /\ store.bytes # mapped.res.val

\* A dropped writer had written and the store does not exist.
C30_DroppedUnpublished ==
    /\ store = Nonexistent
    /\ \E w \in Writers : writers[w].state = "dropped" /\ writers[w].writes = MaxWrites

====
